---- MODULE Spec2Model ----
(***************************************************************************)
(* Supermarket shopping assistant: the catalog store (backend/database.py), *)
(* the query normalizer and relevance ranker (backend/search.py), the grid  *)
(* navigator (backend/pathfinding.py) and the response orchestrator         *)
(* (backend/ai_pipeline.py, backend/api.py).                                *)
(*                                                                          *)
(* Text is a sequence of one-character strings, so that Python's substring, *)
(* split, lower and startswith are computed rather than assumed.  Scores    *)
(* are fixed-point numbers in tenths (950 is 95.0), the unit round(x, 1)    *)
(* produces.  Python's None is the empty tuple and a present value v is the *)
(* one-element tuple <<v>>.                                                 *)
(***************************************************************************)
EXTENDS Integers, Sequences, FiniteSets, TLC

VARIABLES
    store_config,           \* table store_config: key -> integer value
    aisles,                 \* table aisles: set of rows
    next_aisle_id,          \* AUTOINCREMENT counter of aisles
    products,               \* table products: set of rows
    next_product_id,        \* AUTOINCREMENT counter of products
    product_vocab_loaded,   \* search.py global _product_vocab_loaded
    spell_words,            \* words load_words() added to search.py global _spell
    ret,                    \* the response of the handler that ran last
    request,                \* a chat call in progress: its position and its reads
    settings,               \* a settings save in progress: its position and form
    committed               \* the states of the tables, one per commit, in order

vars == <<store_config, aisles, next_aisle_id, products, next_product_id,
          product_vocab_loaded, spell_words, ret, request, settings, committed>>

\* ------------------------------------------------------------------ bounds

\* Largest grid dimension and coordinate the navigator specification draws.
MaxDim == 3

\* The number of rows table products, and table aisles, ever receive: the cap
\* on the AUTOINCREMENT counters.
MaxProducts == 2
MaxAisles == 2

\* Longest commit log: the state a behaviour starts in and the changes after it.
MaxCommits == 3

\* Longest term and name in the enumeration of the cases of the score floors.
MaxTextLen == 3

\* ------------------------------------------------------------- Python values

None == <<>>
Some(v) == <<v>>

Min(a, b) == IF a <= b THEN a ELSE b
Max(a, b) == IF a >= b THEN a ELSE b

\* Pieces of a formatted (f-string) text: a literal of the source, a text
\* value, or a number.
Lit(s) == [k |-> "lit", lit |-> s, txt |-> <<>>, num |-> 0]
Txt(t) == [k |-> "txt", lit |-> "", txt |-> t, num |-> 0]
Num(n) == [k |-> "num", lit |-> "", txt |-> <<>>, num |-> n]

\* An assignment "v = value" followed by the statements Body(v): value is
\* computed once, whatever the number of times Body reads v.
Bind(value, Body(_)) == CHOOSE out \in {Body(v) : v \in {value}} : TRUE

\* str(None) inside an f-string
StrOfNone == <<"N", "o", "n", "e">>

\* ---------------------------------------------------------------- navigator

\* 4-directional movement that tries forward and back before right and left
directions_column_first == << <<1, 0>>, <<-1, 0>>, <<0, 1>>, <<0, -1>> >>

\* movement to the right and forward only
directions_two_way == << <<0, 1>>, <<1, 0>> >>

\* 4-directional movement, in the order bfs_path tries it
directions == << <<0, 1>>, <<0, -1>>, <<1, 0>>, <<-1, 0>> >>

\* a lookup that also keeps the aisles outside rows x cols
build_store_grid_unchecked(rows, cols, aisleRows) ==
    [grid |-> {<<a.grid_x, a.grid_y>> : a \in aisleRows},
     rows |-> rows,
     cols |-> cols,
     aisle_positions |->
         [n \in {a.name : a \in aisleRows} |->
             LET a == CHOOSE b \in aisleRows : b.name = n
             IN  <<a.grid_x, a.grid_y>>]]

\* build_store_grid: the cells marked 1 and the name -> (x, y) lookup of the
\* aisles that lie inside rows x cols.  Aisle names are UNIQUE in the table,
\* so the order of get_all_aisles does not change the lookup.
build_store_grid(rows, cols, aisleRows) ==
    LET inside == {a \in aisleRows : /\ 0 <= a.grid_x /\ a.grid_x < rows
                                     /\ 0 <= a.grid_y /\ a.grid_y < cols}
    IN  [grid |-> {<<a.grid_x, a.grid_y>> : a \in inside},
         rows |-> rows,
         cols |-> cols,
         aisle_positions |->
             [n \in {a.name : a \in inside} |->
                 LET a == CHOOSE b \in inside : b.name = n
                 IN  <<a.grid_x, a.grid_y>>]]

\* One pass of "for dx, dy in directions" for the dequeued (cell, path): st is
\* [queue, visited, found]; found is None or the returned path.
RECURSIVE BfsNeighbours(_, _, _, _, _, _, _)
BfsNeighbours(cell, path, end, rows, cols, d, st) ==
    IF d > Len(directions) \/ st.found # None THEN st
    ELSE LET n == <<cell[1] + directions[d][1], cell[2] + directions[d][2]>>
         IN  IF /\ 0 <= n[1] /\ n[1] < rows /\ 0 <= n[2] /\ n[2] < cols
                /\ n \notin st.visited
             THEN LET new_path == Append(path, n)
                      st2 == IF n = end
                             THEN [st EXCEPT !.visited = @ \cup {n},
                                             !.found = Some(new_path)]
                             ELSE [st EXCEPT !.visited = @ \cup {n},
                                             !.queue = Append(@, <<n, new_path>>)]
                  IN  BfsNeighbours(cell, path, end, rows, cols, d + 1, st2)
             ELSE BfsNeighbours(cell, path, end, rows, cols, d + 1, st)

\* "while queue": returns None when the queue empties
RECURSIVE BfsLoop(_, _, _, _)
BfsLoop(st, end, rows, cols) ==
    IF st.found # None THEN st.found
    ELSE IF st.queue = <<>> THEN None
    ELSE LET head == Head(st.queue)
             popped == [st EXCEPT !.queue = Tail(@)]
         IN  BfsLoop(BfsNeighbours(head[1], head[2], end, rows, cols, 1, popped),
                     end, rows, cols)

\* bfs_path(grid, start, end, rows, cols): Some(path) or None.  The grid
\* argument is never read by the function: aisle cells are walkable.
bfs_path(start, end, rows, cols) ==
    IF start = end THEN Some(<<start>>)
    ELSE BfsLoop([queue |-> << <<start, <<start>> >> >>,
                  visited |-> {start},
                  found |-> None], end, rows, cols)

\* direction_names.get((dx, dy), "forward")
direction_names(dx, dy) ==
    IF dx = 0 /\ dy = 1 THEN "right"
    ELSE IF dx = 0 /\ dy = -1 THEN "left"
    ELSE IF dx = 1 /\ dy = 0 THEN "forward"
    ELSE IF dx = -1 /\ dy = 0 THEN "back"
    ELSE "forward"

\* the inner while left out: every step is a run of its own
CountRunOfOne(path, i, steps, dx, dy) == steps

\* the inner while of path_to_directions: the number of consecutive steps from
\* index i (1-based) that repeat the step (dx, dy)
RECURSIVE CountRun(_, _, _, _, _)
CountRun(path, i, steps, dx, dy) ==
    IF i + steps < Len(path)
       /\ path[i + steps + 1][1] - path[i + steps][1] = dx
       /\ path[i + steps + 1][2] - path[i + steps][2] = dy
    THEN CountRun(path, i, steps + 1, dx, dy)
    ELSE steps

\* the outer while of path_to_directions: the list of phrases, each a record
\* of the direction name and the run length
RECURSIVE DirectionRuns(_, _)
DirectionRuns(path, i) ==
    IF i >= Len(path) THEN <<>>
    ELSE LET dx == path[i + 1][1] - path[i][1]
             dy == path[i + 1][2] - path[i][2]
             steps == CountRun(path, i, 1, dx, dy)
         IN  <<[direction |-> direction_names(dx, dy), steps |-> steps]>>
             \o DirectionRuns(path, i + steps)

\* f"Go {direction}" or f"Go {direction} for {steps} sections"
PhraseText(r) ==
    IF r.steps = 1 THEN <<Lit("Go "), Lit(r.direction)>>
    ELSE <<Lit("Go "), Lit(r.direction), Lit(" for "), Num(r.steps), Lit(" sections")>>

\* " -> ".join(directions); the source's separator is a right arrow between
\* two spaces, written here in ASCII
RECURSIVE JoinPhrases(_)
JoinPhrases(runs) ==
    IF runs = <<>> THEN <<>>
    ELSE IF Len(runs) = 1 THEN PhraseText(runs[1])
    ELSE PhraseText(runs[1]) \o <<Lit(" -> ")>> \o JoinPhrases(Tail(runs))

AlreadyThere == <<Lit("You're already there!")>>

path_to_directions(path) ==
    IF Len(path) < 2 THEN AlreadyThere
    ELSE JoinPhrases(DirectionRuns(path, 1))

\* product.get("aisle_name", ""): a product dict is a record whose
\* has_aisle_name says whether the key is present; the value is None or a text
ProductAisleName(product) ==
    IF product.has_aisle_name THEN product.aisle_name ELSE Some(<<>>)

\* f"{aisle_name}" and f"{product.get('section', '')}"
FormatOpt(v) == IF v = None THEN StrOfNone ELSE v[1]

\* get_directions_to_product(product), given what its reads of the store
\* returned: grid_rows, grid_cols, the aisle rows and the entrance.
get_directions_to_product(product, rows, cols, aisleRows, entrance_x, entrance_y) ==
    LET built == build_store_grid(rows, cols, aisleRows)
        start == <<entrance_x, entrance_y>>
        aisle_name == ProductAisleName(product)
        known == aisle_name # None /\ aisle_name[1] \in DOMAIN built.aisle_positions
    IN  IF ~known
        THEN [found |-> FALSE,
              directions |-> <<Lit("Sorry, I couldn't find the location for aisle "),
                               Txt(FormatOpt(aisle_name)), Lit(".")>>,
              path |-> <<>>,
              target |-> None,
              entrance |-> start,
              steps |-> None]
        ELSE LET target == built.aisle_positions[aisle_name[1]]
                 path == bfs_path(start, target, rows, cols)
             IN  IF path = None
                 THEN [found |-> FALSE,
                       directions |-> <<Lit("Sorry, I couldn't find a path to aisle "),
                                        Txt(FormatOpt(aisle_name)), Lit(".")>>,
                       path |-> <<>>,
                       target |-> Some(target),
                       entrance |-> start,
                       steps |-> None]
                 ELSE [found |-> TRUE,
                       directions |-> <<Lit("Head to **Aisle "), Txt(FormatOpt(aisle_name)),
                                        Lit("** ("), Txt(FormatOpt(product.section)),
                                        Lit("): ")>> \o path_to_directions(path[1]),
                       path |-> path[1],
                       target |-> Some(target),
                       entrance |-> start,
                       steps |-> Some(Len(path[1]) - 1)]

\* ------------------------------------------------------------------- texts

\* The characters the model's texts use, in code-point order (the order of
\* SQLite's BINARY collation and of Python's string comparison).
Alphabet == <<" ", ",", "0", "1", "2", "3", "9", "A", "B", "C", "G", "M", "N", "S",
              "T", "Z", "[", "]", "a", "b", "c", "d", "e", "f", "g", "h", "i", "j",
              "k", "l", "m", "n", "o", "p", "q", "r", "s", "t", "u", "v", "w", "x",
              "y", "z">>

CharCode(c) == CHOOSE i \in 1..Len(Alphabet) : Alphabet[i] = c

UpperCase == <<"A", "B", "C", "G", "M", "N", "S", "T", "Z">>
LowerCase == <<"a", "b", "c", "g", "m", "n", "s", "t", "z">>

\* str.lower() of one character
LowerChar(c) ==
    IF \E i \in 1..Len(UpperCase) : UpperCase[i] = c
    THEN LowerCase[CHOOSE i \in 1..Len(UpperCase) : UpperCase[i] = c]
    ELSE c

\* str.lower()
Lower(t) == [i \in 1..Len(t) |-> LowerChar(t[i])]

\* a < b for texts
RECURSIVE TextLess(_, _)
TextLess(a, b) ==
    IF b = <<>> THEN FALSE
    ELSE IF a = <<>> THEN TRUE
    ELSE IF a[1] # b[1] THEN CharCode(a[1]) < CharCode(b[1])
    ELSE TextLess(Tail(a), Tail(b))

\* s in t (Python's substring test); the empty text is in every text
IsSubstr(s, t) ==
    \E i \in 0..(Len(t) - Len(s)) : SubSeq(t, i + 1, i + Len(s)) = s

\* t.startswith(s), t.endswith(s)
StartsWith(t, s) == Len(s) <= Len(t) /\ SubSeq(t, 1, Len(s)) = s
EndsWith(t, s) == Len(s) <= Len(t) /\ SubSeq(t, Len(t) - Len(s) + 1, Len(t)) = s

\* ------------------------------------------------------------ query normalizer

\* str.split(): the maximal runs of non-space characters
RECURSIVE SplitWs(_, _, _)
SplitWs(t, i, cur) ==
    IF i > Len(t) THEN (IF cur = <<>> THEN <<>> ELSE <<cur>>)
    ELSE IF t[i] = " "
         THEN (IF cur = <<>> THEN <<>> ELSE <<cur>>) \o SplitWs(t, i + 1, <<>>)
         ELSE SplitWs(t, i + 1, Append(cur, t[i]))

\* str.split(","): the pieces between commas, empty pieces kept
RECURSIVE SplitComma(_, _, _)
SplitComma(t, i, cur) ==
    IF i > Len(t) THEN <<cur>>
    ELSE IF t[i] = ","
         THEN <<cur>> \o SplitComma(t, i + 1, <<>>)
         ELSE SplitComma(t, i + 1, Append(cur, t[i]))

\* str.strip()
RECURSIVE Strip(_)
Strip(t) ==
    IF t = <<>> THEN t
    ELSE IF t[1] = " " THEN Strip(Tail(t))
    ELSE IF t[Len(t)] = " " THEN Strip(SubSeq(t, 1, Len(t) - 1))
    ELSE t

\* " ".join(words)
RECURSIVE JoinWs(_)
JoinWs(words) ==
    IF words = <<>> THEN <<>>
    ELSE IF Len(words) = 1 THEN words[1]
    ELSE words[1] \o <<" ">> \o JoinWs(Tail(words))

SeqToSet(s) == {s[i] : i \in 1..Len(s)}

\* The general-language dictionary of SpellChecker(), as far as the model's
\* words go: the English words among them.  The transliterated and brand
\* words (cheeni, maggi, tata) are not in it.
EnglishWords ==
    {<<"s", "u", "g", "a", "r">>,
     <<"s", "w", "e", "e", "t">>,
     <<"m", "a", "g", "i">>,
     <<"c", "h", "e", "e", "r", "s">>,
     <<"c", "o", "l", "d">>,
     <<"f", "o", "r">>,
     <<"s", "o", "m", "e", "t", "h", "i", "n", "g">>,
     <<"g", "r", "o", "c", "e", "r", "y">>,
     <<"s", "n", "a", "c", "k", "s">>,
     <<"n", "o", "o", "d", "l", "e", "s">>}

\* the words _load_product_vocab collects from one product dict: the words of
\* name, brand and category, and the stripped comma-separated keyword tags
ProductWords(p) ==
    SeqToSet(SplitWs(Lower(p.name), 1, <<>>))
    \cup (IF p.brand # <<>> THEN SeqToSet(SplitWs(Lower(p.brand), 1, <<>>)) ELSE {})
    \cup (IF p.category # <<>> THEN SeqToSet(SplitWs(Lower(p.category), 1, <<>>)) ELSE {})
    \cup (IF p.keywords # <<>>
          THEN {Strip(w) : w \in SeqToSet(SplitComma(Lower(p.keywords), 1, <<>>))}
          ELSE {})

\* _load_product_vocab: the custom words of _spell afterwards.  The words are
\* read from the catalog on the first call only.
load_product_vocab(loaded, words, productDicts) ==
    IF loaded THEN words
    ELSE words \cup UNION {ProductWords(productDicts[i]) : i \in 1..Len(productDicts)}

\* one edit (replace, delete, insert or transpose) turns a into b
EditDistance1(a, b) ==
    \/ /\ Len(a) = Len(b)
       /\ Cardinality({i \in 1..Len(a) : a[i] # b[i]}) = 1
    \/ /\ Len(a) = Len(b)
       /\ \E i \in 1..(Len(a) - 1) :
             /\ a[i] = b[i + 1] /\ a[i + 1] = b[i] /\ a[i] # a[i + 1]
             /\ \A j \in 1..Len(a) : (j # i /\ j # i + 1) => a[j] = b[j]
    \/ /\ Len(a) = Len(b) + 1
       /\ \E i \in 1..Len(a) : SubSeq(a, 1, i - 1) \o SubSeq(a, i + 1, Len(a)) = b
    \/ /\ Len(b) = Len(a) + 1
       /\ \E i \in 1..Len(b) : SubSeq(b, 1, i - 1) \o SubSeq(b, i + 1, Len(b)) = a

\* edit_distance_1(a), as far as the letters in L go
Edits1(a, L) ==
    {SubSeq(a, 1, i - 1) \o SubSeq(a, i + 1, Len(a)) : i \in 1..Len(a)}
    \cup {SubSeq(a, 1, i - 1) \o <<a[i + 1], a[i]>> \o SubSeq(a, i + 2, Len(a)) :
             i \in 1..(Len(a) - 1)}
    \cup {SubSeq(a, 1, i - 1) \o <<c>> \o SubSeq(a, i + 1, Len(a)) :
             i \in 1..Len(a), c \in L}
    \cup {SubSeq(a, 1, i) \o <<c>> \o SubSeq(a, i + 1, Len(a)) : i \in 0..Len(a), c \in L}

\* two edits turn a into b: b is one edit away from a word one edit away
\* from a (whose letters can be taken from a and b)
EditDistance2(a, b) ==
    \E c \in Edits1(a, SeqToSet(a) \cup SeqToSet(b)) : EditDistance1(c, b)

\* the least text of a non-empty set
LeastText(S) == CHOOSE w \in S : \A v \in S : v = w \/ TextLess(w, v)

\* SpellChecker.correction(word): None, or the likeliest of the candidates:
\* the dictionary words one edit away or, if there is none, those two edits
\* away.  General-language words carry their corpus frequency and loaded
\* words the frequency 1, so a general-language candidate wins; among several
\* the model takes the least one.
Likeliest(english, custom) ==
    IF english # {} THEN Some(LeastText(english))
    ELSE IF custom # {} THEN Some(LeastText(custom))
    ELSE None
correction(word, dictionary) ==
    IF word \in dictionary THEN Some(word)
    ELSE IF \E w \in dictionary : EditDistance1(word, w)
    THEN Likeliest({w \in EnglishWords : EditDistance1(word, w)},
                   {w \in dictionary : EditDistance1(word, w)})
    ELSE Likeliest({w \in EnglishWords : EditDistance2(word, w)},
                   {w \in dictionary : EditDistance2(word, w)})

\* the loop body of correct_query for one word
CorrectWord(word, custom) ==
    IF word \notin (EnglishWords \cup custom) /\ word \notin EnglishWords
    THEN LET c == correction(word, EnglishWords \cup custom)
         IN  IF c # None THEN c[1] ELSE word
    ELSE word

\* correct_query(query), given the custom words _spell holds after
\* _load_product_vocab ran: the list "corrected" and the returned text
CorrectedWords(query, custom) ==
    LET words == SplitWs(Lower(query), 1, <<>>)
    IN  [i \in 1..Len(words) |-> CorrectWord(words[i], custom)]

correct_query(query, custom) == JoinWs(CorrectedWords(query, custom))

INTENT_MAP ==
    <<
      [intent |-> <<"c", "o", "l", "d">>,
       keywords |-> <<
          <<"c", "o", "l", "d">>,
          <<"f", "l", "u">>,
          <<"f", "e", "v", "e", "r">>,
          <<"c", "o", "u", "g", "h">>,
          <<"s", "a", "r", "d", "i">>,
          <<"k", "h", "a", "n", "s", "i">>,
          <<"b", "u", "k", "h", "a", "r">>,
          <<"p", "a", "r", "a", "c", "e", "t", "a", "m", "o", "l">>
       >>],
      [intent |-> <<"h", "e", "a", "d", "a", "c", "h", "e">>,
       keywords |-> <<
          <<"h", "e", "a", "d", "a", "c", "h", "e">>,
          <<"p", "a", "i", "n", " ", "r", "e", "l", "i", "e", "f">>,
          <<"p", "a", "r", "a", "c", "e", "t", "a", "m", "o", "l">>,
          <<"f", "e", "v", "e", "r">>
       >>],
      [intent |-> <<"f", "e", "v", "e", "r">>,
       keywords |-> <<
          <<"f", "e", "v", "e", "r">>,
          <<"p", "a", "r", "a", "c", "e", "t", "a", "m", "o", "l">>,
          <<"b", "u", "k", "h", "a", "r">>,
          <<"c", "o", "l", "d">>
       >>],
      [intent |-> <<"h", "u", "n", "g", "r", "y">>,
       keywords |-> <<
          <<"s", "n", "a", "c", "k">>,
          <<"b", "i", "s", "c", "u", "i", "t">>,
          <<"c", "h", "i", "p", "s">>,
          <<"n", "a", "m", "k", "e", "e", "n">>,
          <<"c", "h", "o", "c", "o", "l", "a", "t", "e">>
       >>],
      [intent |-> <<"t", "h", "i", "r", "s", "t", "y">>,
       keywords |-> <<
          <<"w", "a", "t", "e", "r">>,
          <<"j", "u", "i", "c", "e">>,
          <<"c", "o", "l", "d", " ", "d", "r", "i", "n", "k">>,
          <<"s", "o", "d", "a">>,
          <<"p", "a", "a", "n", "i">>
       >>],
      [intent |-> <<"b", "r", "e", "a", "k", "f", "a", "s", "t">>,
       keywords |-> <<
          <<"m", "i", "l", "k">>,
          <<"b", "r", "e", "a", "d">>,
          <<"b", "u", "t", "t", "e", "r">>,
          <<"t", "e", "a">>,
          <<"b", "i", "s", "c", "u", "i", "t">>,
          <<"c", "h", "a", "i">>
       >>],
      [intent |-> <<"c", "o", "o", "k", "i", "n", "g">>,
       keywords |-> <<
          <<"o", "i", "l">>,
          <<"s", "p", "i", "c", "e">>,
          <<"m", "a", "s", "a", "l", "a">>,
          <<"s", "a", "l", "t">>,
          <<"r", "i", "c", "e">>,
          <<"a", "t", "t", "a">>
       >>],
      [intent |-> <<"c", "l", "e", "a", "n", "i", "n", "g">>,
       keywords |-> <<
          <<"s", "o", "a", "p">>,
          <<"h", "a", "n", "d", " ", "w", "a", "s", "h">>,
          <<"s", "a", "n", "i", "t", "i", "z", "e", "r">>,
          <<"d", "e", "t", "t", "o", "l">>
       >>],
      [intent |-> <<"h", "a", "i", "r">>,
       keywords |-> <<
          <<"s", "h", "a", "m", "p", "o", "o">>,
          <<"h", "a", "i", "r", " ", "c", "a", "r", "e">>,
          <<"h", "a", "i", "r", " ", "w", "a", "s", "h">>,
          <<"c", "o", "n", "d", "i", "t", "i", "o", "n", "e", "r">>
       >>],
      [intent |-> <<"t", "e", "e", "t", "h">>,
       keywords |-> <<
          <<"t", "o", "o", "t", "h", "p", "a", "s", "t", "e">>,
          <<"d", "e", "n", "t", "a", "l">>,
          <<"d", "a", "n", "t", " ", "m", "a", "n", "j", "a", "n">>
       >>],
      [intent |-> <<"s", "k", "i", "n">>,
       keywords |-> <<
          <<"f", "a", "c", "e", " ", "w", "a", "s", "h">>,
          <<"c", "r", "e", "a", "m">>,
          <<"s", "o", "a", "p">>,
          <<"s", "k", "i", "n", " ", "c", "a", "r", "e">>
       >>],
      [intent |-> <<"b", "a", "b", "y">>,
       keywords |-> <<
          <<"d", "i", "a", "p", "e", "r">>,
          <<"b", "a", "b", "y", " ", "f", "o", "o", "d">>,
          <<"m", "i", "l", "k">>,
          <<"p", "o", "w", "d", "e", "r">>
       >>],
      [intent |-> <<"s", "w", "e", "e", "t">>,
       keywords |-> <<
          <<"c", "h", "o", "c", "o", "l", "a", "t", "e">>,
          <<"b", "i", "s", "c", "u", "i", "t">>,
          <<"i", "c", "e", " ", "c", "r", "e", "a", "m">>,
          <<"c", "a", "n", "d", "y">>,
          <<"m", "i", "t", "h", "a", "i">>,
          <<"s", "u", "g", "a", "r">>
       >>],
      [intent |-> <<"s", "p", "i", "c", "y">>,
       keywords |-> <<
          <<"c", "h", "i", "l", "i">>,
          <<"m", "a", "s", "a", "l", "a">>,
          <<"m", "i", "r", "c", "h">>,
          <<"g", "a", "r", "a", "m", " ", "m", "a", "s", "a", "l", "a">>
       >>],
      [intent |-> <<"d", "r", "i", "n", "k">>,
       keywords |-> <<
          <<"c", "o", "l", "d", " ", "d", "r", "i", "n", "k">>,
          <<"j", "u", "i", "c", "e">>,
          <<"s", "o", "d", "a">>,
          <<"w", "a", "t", "e", "r">>,
          <<"c", "o", "k", "e">>,
          <<"p", "e", "p", "s", "i">>
       >>],
      [intent |-> <<"f", "r", "u", "i", "t">>,
       keywords |-> <<
          <<"b", "a", "n", "a", "n", "a">>,
          <<"a", "p", "p", "l", "e">>,
          <<"m", "a", "n", "g", "o">>,
          <<"f", "r", "u", "i", "t">>,
          <<"k", "e", "l", "a">>,
          <<"s", "e", "b">>
       >>],
      [intent |-> <<"v", "e", "g", "e", "t", "a", "b", "l", "e">>,
       keywords |-> <<
          <<"t", "o", "m", "a", "t", "o">>,
          <<"o", "n", "i", "o", "n">>,
          <<"p", "e", "a", "s">>,
          <<"s", "a", "b", "j", "i">>,
          <<"t", "a", "m", "a", "t", "a", "r">>,
          <<"p", "y", "a", "a", "z">>
       >>]
    >>

\* the extension for the intents equal to the whole query only
RECURSIVE ExtendTermsWholeQuery(_, _, _)
ExtendTermsWholeQuery(query_lower, k, expanded_terms) ==
    IF k > Len(INTENT_MAP) THEN expanded_terms
    ELSE ExtendTermsWholeQuery(query_lower, k + 1,
                               IF INTENT_MAP[k].intent = query_lower
                               THEN expanded_terms \o INTENT_MAP[k].keywords
                               ELSE expanded_terms)

\* expanded_terms.extend(keywords) for every intent found in the query, in the
\* order of INTENT_MAP.items()
RECURSIVE ExtendTerms(_, _, _)
ExtendTerms(query_lower, k, expanded_terms) ==
    IF k > Len(INTENT_MAP) THEN expanded_terms
    ELSE ExtendTerms(query_lower, k + 1,
                     IF IsSubstr(INTENT_MAP[k].intent, query_lower)
                     THEN expanded_terms \o INTENT_MAP[k].keywords
                     ELSE expanded_terms)

\* list(set(xs)): the distinct elements of xs.  Python leaves the order of the
\* list open; the model keeps the order of first occurrence, and no caller
\* depends on the order (the fuzzy tier takes a maximum over the terms).
RECURSIVE ListOfSet(_)
ListOfSet(xs) ==
    IF xs = <<>> THEN <<>>
    ELSE LET init == ListOfSet(SubSeq(xs, 1, Len(xs) - 1))
             last == xs[Len(xs)]
         IN  IF last \in SeqToSet(init) THEN init ELSE Append(init, last)

expand_query(query) ==
    LET query_lower == Lower(query)
    IN  ListOfSet(ExtendTerms(query_lower, 1, <<query_lower>>))

\* ------------------------------------------------------------- relevance ranker

\* the greatest number of a non-empty finite set of numbers
MaxOf(S) == CHOOSE m \in S : \A x \in S : x <= m

\* One row of the longest-common-subsequence table: prev is the row of the
\* characters before c.  Cell j is the best of leaving c out (prev[j]) and of
\* pairing c with an equal b[k], k <= j (the cell before k in prev, plus one).
LcsRow(prev, c, b) ==
    SubSeq([j \in 1..Len(b) |->
               MaxOf({prev[j]} \cup {(IF k = 1 THEN 0 ELSE prev[k - 1]) + 1 :
                                        k \in {m \in 1..j : b[m] = c}})],
           1, Len(b))

\* The table's last row, from the row prev of the first i - 1 characters of
\* a.  A row whose last cell has reached Len(b) is final in that cell.
RECURSIVE LcsRows(_, _, _, _)
LcsRows(a, b, i, prev) ==
    IF i > Len(a) \/ prev[Len(b)] = Len(b) THEN prev
    ELSE LcsRows(a, b, i + 1, LcsRow(prev, a[i], b))

Lcs(a, b) ==
    IF a = <<>> \/ b = <<>> THEN 0
    ELSE LcsRows(a, b, 1, SubSeq([j \in 1..Len(b) |-> 0], 1, Len(b)))[Len(b)]

\* rapidfuzz's normalized Indel similarity, fuzz.ratio, rounded down to a
\* whole number: 100 * 2 * LCS / (len(a) + len(b)).  The library's scorers all
\* lie in 0..100; the model computes each of them from this one.
ratio(a, b) ==
    IF a = <<>> /\ b = <<>> THEN 100
    ELSE (200 * Lcs(a, b)) \div (Len(a) + Len(b))

\* fuzz.WRatio: 0 when either text is empty, else at least fuzz.ratio
fuzz_WRatio(a, b) == IF a = <<>> \/ b = <<>> THEN 0 ELSE ratio(a, b)

\* fuzz.partial_ratio: 100 when the shorter text occurs in the longer one
fuzz_partial_ratio(a, b) ==
    IF a = <<>> \/ b = <<>> THEN (IF a = b THEN 100 ELSE 0)
    ELSE IF IsSubstr(a, b) \/ IsSubstr(b, a) THEN 100
    ELSE ratio(a, b)

\* fuzz.token_set_ratio: 0 when either text is empty
fuzz_token_set_ratio(a, b) == IF a = <<>> \/ b = <<>> THEN 0 ELSE ratio(a, b)

\* the score floors of search_products_fuzzy, in hundredths
FloorSubstring == 9500
FloorStartsEnds == 9200
FloorKeyword == 7500

\* the field weights of search_products_fuzzy, in hundredths
WeightName == 50
WeightKeyword == 25
WeightCategory == 15
WeightBrand == 10

\* "weighted" before the floors: the four field scores of one term against
\* one product under their weights, in hundredths of a point
Weighted(term, product) ==
    LET name == Lower(product.name)
        brand == Lower(product.brand)
        category == Lower(product.category)
        keywords == Lower(product.keywords)
        name_score == Max(fuzz_WRatio(term, name), fuzz_partial_ratio(term, name))
        brand_score == fuzz_WRatio(term, brand)
        category_score == fuzz_WRatio(term, category)
        keyword_score == fuzz_token_set_ratio(term, keywords)
    IN  name_score * WeightName + keyword_score * WeightKeyword
        + category_score * WeightCategory + brand_score * WeightBrand

\* the weighted score without any floor
TermScoreNoFloor(term, product) == Weighted(term, product)

\* the body of "for term in expanded_terms": the score of one term against
\* one product after the floors, in hundredths of a point
TermScore(term, product) ==
    LET name == Lower(product.name)
        keywords == Lower(product.keywords)
        weighted == Weighted(term, product)
    IN  IF IsSubstr(term, name) THEN Max(weighted, FloorSubstring)
        ELSE IF StartsWith(name, term) \/ EndsWith(name, term)
             THEN Max(weighted, FloorStartsEnds)
        ELSE IF IsSubstr(term, keywords) THEN Max(weighted, FloorKeyword)
        ELSE weighted

\* best_score: the maximum over the expanded terms, starting from 0
BestScore(terms, product) ==
    MaxOf({0} \cup {TermScore(terms[k], product) : k \in 1..Len(terms)})

\* round(x, 1) of a score given in hundredths: the score in tenths, a half
\* going to the even tenth
Round1(h) ==
    LET q == h \div 10
        r == h % 10
    IN  IF r < 5 THEN q
        ELSE IF r > 5 THEN q + 1
        ELSE IF q % 2 = 0 THEN q ELSE q + 1

\* the list without the cut
SliceWhole(xs, n) == xs

\* xs[:n]
Slice(xs, n) ==
    IF n >= 0 THEN SubSeq(xs, 1, Min(n, Len(xs)))
    ELSE SubSeq(xs, 1, Max(Len(xs) + n, 0))

\* list.sort(key=match_score, reverse=True): a stable insertion of x into a
\* list already sorted by descending score, after the entries that tie
RECURSIVE InsertByScore(_, _)
InsertByScore(sorted, x) ==
    IF sorted = <<>> THEN <<x>>
    ELSE IF sorted[1].match_score >= x.match_score
         THEN <<sorted[1]>> \o InsertByScore(Tail(sorted), x)
         ELSE <<x>> \o sorted

RECURSIVE SortByScore(_)
SortByScore(xs) ==
    IF xs = <<>> THEN <<>>
    ELSE InsertByScore(SortByScore(SubSeq(xs, 1, Len(xs) - 1)), xs[Len(xs)])

\* the loop "for product in products": the scored products that reach the
\* threshold (given in points), in catalog order
RECURSIVE ScoredProducts(_, _, _, _)
ScoredProducts(terms, productDicts, i, score_threshold) ==
    IF i > Len(productDicts) THEN <<>>
    ELSE LET best_score == BestScore(terms, productDicts[i])
         IN  (IF best_score >= score_threshold * 100
              THEN <<[product |-> productDicts[i], match_score |-> Round1(best_score)]>>
              ELSE <<>>)
             \o ScoredProducts(terms, productDicts, i + 1, score_threshold)

\* search_products_fuzzy(query, products, top_n, score_threshold), given the
\* custom words of _spell after _load_product_vocab ran
search_products_fuzzy(query, productDicts, top_n, score_threshold, custom) ==
    LET corrected_query == correct_query(query, custom)
        expanded_terms == expand_query(corrected_query)
    IN  Slice(SortByScore(ScoredProducts(expanded_terms, productDicts, 1, score_threshold)),
              top_n)

\* ---- the semantic tier

Digits == <<"0", "1", "2", "3", "4", "5", "6", "7", "8", "9">>
IsDigit(c) == \E i \in 1..Len(Digits) : Digits[i] = c
DigitValue(c) == (CHOOSE i \in 1..Len(Digits) : Digits[i] = c) - 1

\* the index after the run of [\d\s,] characters that starts at i
RECURSIVE RunEnd(_, _)
RunEnd(t, i) ==
    IF i <= Len(t) /\ (IsDigit(t[i]) \/ t[i] = " " \/ t[i] = ",")
    THEN RunEnd(t, i + 1)
    ELSE i

\* re.search(r'\[[\d\s,]*\]', raw): None, or the text between the brackets of
\* the leftmost match
RegexBracketList(raw) ==
    LET starts == {i \in 1..Len(raw) :
                      /\ raw[i] = "["
                      /\ RunEnd(raw, i + 1) <= Len(raw)
                      /\ raw[RunEnd(raw, i + 1)] = "]"}
    IN  IF starts = {} THEN None
        ELSE LET i == CHOOSE j \in starts : \A k \in starts : j <= k
             IN  Some(SubSeq(raw, i + 1, RunEnd(raw, i + 1) - 1))

\* a JSON number made of digits: no leading zero
IsJsonInt(t) ==
    /\ t # <<>>
    /\ \A i \in 1..Len(t) : IsDigit(t[i])
    /\ (Len(t) > 1 => t[1] # "0")

RECURSIVE IntOf(_)
IntOf(t) == IF t = <<>> THEN 0 ELSE 10 * IntOf(SubSeq(t, 1, Len(t) - 1)) + DigitValue(t[Len(t)])

\* json.loads(match.group()) of the text between the brackets: None when the
\* text is no JSON array (json.loads raises), else the list of integers
JsonLoadsArray(inner) ==
    IF Strip(inner) = <<>> THEN Some(<<>>)
    ELSE LET parts == SplitComma(inner, 1, <<>>)
         IN  IF \A i \in 1..Len(parts) : IsJsonInt(Strip(parts[i]))
             THEN Some([i \in 1..Len(parts) |-> IntOf(Strip(parts[i]))])
             ELSE None

\* "for idx in indices": results so far, each a copy of the product with
\* match_score = round(100 - len(results) * 5, 1), in tenths
RECURSIVE LlmResults(_, _, _, _)
LlmResults(indices, productDicts, k, results) ==
    IF k > Len(indices) THEN results
    ELSE LlmResults(indices, productDicts, k + 1,
                    IF 1 <= indices[k] /\ indices[k] <= Len(productDicts)
                    THEN Append(results, [product |-> productDicts[indices[k]],
                                          match_score |-> (100 - Len(results) * 5) * 10])
                    ELSE results)

\* The statements of search_with_llm after the reply arrived: None, or
\* Some(results[:top_n]).  A reply without a match, a match json.loads
\* rejects and a list without an index in 1..len(products) all give None.
ParseReply(raw, productDicts, top_n) ==
    LET match == RegexBracketList(raw)
    IN  IF match = None THEN None
        ELSE LET indices == JsonLoadsArray(match[1])
             IN  IF indices = None THEN None
                 ELSE LET results == LlmResults(indices[1], productDicts, 1, <<>>)
                      IN  IF results # <<>> THEN Some(Slice(results, top_n)) ELSE None

\* the call without its "except Exception": an error of the request leaves it
search_with_llm_unguarded(llm, productDicts, top_n) ==
    IF llm.kind = "no_client" \/ productDicts = <<>>
    THEN [raised |-> FALSE, value |-> None]
    ELSE IF llm.kind = "raises" THEN [raised |-> TRUE, value |-> None]
    ELSE [raised |-> FALSE, value |-> ParseReply(llm.text, productDicts, top_n)]

\* search_with_llm(query, products, top_n): what the call returns (None or
\* Some(results)) and whether an exception leaves it.  llm is what the matcher
\* does for this call: there is no client, the request raises, or it replies
\* with a text.  The request, the regular expression and json.loads all run
\* inside "try ... except Exception", which falls through to "return None".
search_with_llm(llm, productDicts, top_n) ==
    IF llm.kind = "no_client" \/ productDicts = <<>>
    THEN [raised |-> FALSE, value |-> None]
    ELSE IF llm.kind = "raises" THEN [raised |-> FALSE, value |-> None]
    ELSE [raised |-> FALSE, value |-> ParseReply(llm.text, productDicts, top_n)]

\* -------------------------------------------------------------- catalog store

ConfigKeys == {"grid_rows", "grid_cols", "entrance_x", "entrance_y"}

\* the defaults init_db inserts
DefaultGridRows == 6
DefaultGridCols == 5
DefaultEntranceX == 0
DefaultEntranceY == 0

DefaultConfig ==
    [k \in ConfigKeys |->
        IF k = "grid_rows" THEN DefaultGridRows
        ELSE IF k = "grid_cols" THEN DefaultGridCols
        ELSE IF k = "entrance_x" THEN DefaultEntranceX
        ELSE DefaultEntranceY]

\* get_config(key): every key read by the navigator is inserted by init_db and
\* never deleted, and its value is an integer's decimal text, so
\* int(get_config(key) or default) is the stored integer.
get_config(cfg, key) == cfg[key]

\* aisle names and their sections
A1 == <<"A", "1">>
B2 == <<"B", "2">>
Z9 == <<"Z", "9">>
AisleNames == {A1, B2}
Staples == <<"S", "t", "a", "p", "l", "e", "s">>
Snacks == <<"S", "n", "a", "c", "k", "s">>
SectionOf(name) == IF name = A1 THEN Staples ELSE Snacks

\* a row of table aisles
AisleRow(id, name, section, x, y) ==
    [id |-> id, name |-> name, section |-> section, grid_x |-> x, grid_y |-> y]

\* the text fields of the products the model adds
Sugar ==
    [name |-> <<"S", "u", "g", "a", "r">>,
     brand |-> <<"T", "a", "t", "a">>,
     category |-> <<"G", "r", "o", "c", "e", "r", "y">>,
     keywords |-> <<"c", "h", "e", "e", "n", "i", ",", "s", "w", "e", "e", "t">>]
Maggi ==
    [name |-> <<"M", "a", "g", "g", "i">>,
     brand |-> <<>>,
     category |-> <<"S", "n", "a", "c", "k", "s">>,
     keywords |-> <<"n", "o", "o", "d", "l", "e", "s">>]
ProductTemplates == {Sugar, Maggi}

\* a row of table products as add_product stores it when it is called without
\* price and quantity: price 0.0 and quantity ''
ProductRow(id, t, aisle_id, shelf) ==
    [id |-> id, name |-> t.name, brand |-> t.brand, category |-> t.category,
     keywords |-> t.keywords, aisle_id |-> aisle_id, shelf |-> shelf,
     price |-> 0, quantity |-> <<>>]

\* one row of "products p LEFT JOIN aisles a ON p.aisle_id = a.id" as a dict
JoinedProduct(p, aisleRows) ==
    LET match == {a \in aisleRows : p.aisle_id = Some(a.id)}
        a == CHOOSE b \in match : TRUE
    IN  [id |-> p.id, name |-> p.name, brand |-> p.brand, category |-> p.category,
         keywords |-> p.keywords, aisle_id |-> p.aisle_id, shelf |-> p.shelf,
         price |-> p.price, quantity |-> p.quantity,
         has_aisle_name |-> TRUE,
         aisle_name |-> IF match = {} THEN None ELSE Some(a.name),
         section |-> IF match = {} THEN None ELSE Some(a.section),
         grid_x |-> IF match = {} THEN None ELSE Some(a.grid_x),
         grid_y |-> IF match = {} THEN None ELSE Some(a.grid_y)]

\* ORDER BY p.category, p.name; rows that tie come in rowid order
ProductBefore(p, q) ==
    \/ TextLess(p.category, q.category)
    \/ p.category = q.category /\ TextLess(p.name, q.name)
    \/ p.category = q.category /\ p.name = q.name /\ p.id < q.id

RECURSIVE OrderProducts(_)
OrderProducts(rows) ==
    IF rows = {} THEN <<>>
    ELSE LET first == CHOOSE p \in rows : \A q \in rows : q = p \/ ProductBefore(p, q)
         IN  <<first>> \o OrderProducts(rows \ {first})

\* get_all_products()
get_all_products(productRows, aisleRows) ==
    LET ordered == OrderProducts(productRows)
    IN  [i \in 1..Len(ordered) |-> JoinedProduct(ordered[i], aisleRows)]

\* add_product: the table afterwards.  PRAGMA foreign_keys = ON makes the
\* INSERT raise, and change nothing, when aisle_id names no aisle.
add_product(productRows, aisleRows, id, t, aisle_id, shelf) ==
    IF aisle_id # None /\ ~\E a \in aisleRows : a.id = aisle_id[1]
    THEN productRows
    ELSE productRows \cup {ProductRow(id, t, aisle_id, shelf)}

\* delete_product
delete_product(productRows, product_id) == {p \in productRows : p.id # product_id}

\* add_aisle: the table afterwards.  A name another aisle has fails UNIQUE,
\* the INSERT raises and the table is as before.
add_aisle(aisleRows, id, name, section, grid_x, grid_y) ==
    IF \E a \in aisleRows : a.name = name
    THEN aisleRows
    ELSE aisleRows \cup {AisleRow(id, name, section, grid_x, grid_y)}

\* update_aisle: the table afterwards.  No row has the id: nothing changes.
\* Another aisle has the name: the UPDATE raises and the table is as before.
update_aisle(aisleRows, aisle_id, name, section, grid_x, grid_y) ==
    IF \E a \in aisleRows : a.id # aisle_id /\ a.name = name
    THEN aisleRows
    ELSE {IF a.id = aisle_id THEN AisleRow(a.id, name, section, grid_x, grid_y) ELSE a :
             a \in aisleRows}

\* delete_aisle: table aisles afterwards
delete_aisle(aisleRows, aisle_id) == {a \in aisleRows : a.id # aisle_id}

\* delete_aisle with the foreign key left unenforced: table products as before
KeepReference(productRows, aisle_id) == productRows

\* delete_aisle: table products afterwards, by ON DELETE SET NULL
SetNullOnDelete(productRows, aisle_id) ==
    {IF p.aisle_id = Some(aisle_id) THEN [p EXCEPT !.aisle_id = None] ELSE p :
        p \in productRows}

\* set_config(key, value): table store_config afterwards
set_config(cfg, key, value) == [cfg EXCEPT ![key] = value]

Idle == [op |-> "idle"]

\* no chat call in progress, no settings save in progress
NoRequest == [pc |-> "idle"]
NotSaving == [pc |-> "idle"]

\* The commit log.  It is kept where the behaviour starts with the tables'
\* state in it, and it stays empty elsewhere; where it is kept, MaxCommits
\* bounds its length.
Tables(cfg, aisleRows, productRows) ==
    [store_config |-> cfg, aisles |-> aisleRows, products |-> productRows]
WithinLog(log) == Len(log) <= MaxCommits
Commit(cfg, aisleRows, productRows) ==
    IF committed = <<>> \/ committed[Len(committed)] = Tables(cfg, aisleRows, productRows)
    THEN committed
    ELSE Append(committed, Tables(cfg, aisleRows, productRows))

\* -------------------------------------------------------------- ranker requests

\* search_products without the test for an empty catalog
search_products_unchecked(query, productDicts, top_n, score_threshold, llm, custom) ==
    LET llm_results == search_with_llm(llm, productDicts, top_n)
    IN  IF llm_results.raised
        THEN [raised |-> TRUE, tier |-> "llm", result |-> <<>>]
        ELSE IF llm_results.value # None /\ llm_results.value[1] # <<>>
        THEN [raised |-> FALSE, tier |-> "llm", result |-> llm_results.value[1]]
        ELSE [raised |-> FALSE, tier |-> "fuzzy",
              result |-> search_products_fuzzy(query, productDicts, top_n,
                                               score_threshold, custom)]

\* search_products(query, top_n, score_threshold), given what get_all_products
\* returned, what the matcher does and the custom words of _spell once
\* _load_product_vocab has run: the returned list, the tier that produced it
\* and whether an exception leaves the function.
search_products(query, productDicts, top_n, score_threshold, llm, custom) ==
    IF productDicts = <<>> THEN [raised |-> FALSE, tier |-> "empty", result |-> <<>>]
    ELSE LET llm_results == search_with_llm(llm, productDicts, top_n)
         IN  IF llm_results.raised
             THEN [raised |-> TRUE, tier |-> "llm", result |-> <<>>]
             ELSE IF llm_results.value # None /\ llm_results.value[1] # <<>>
             THEN [raised |-> FALSE, tier |-> "llm", result |-> llm_results.value[1]]
             ELSE [raised |-> FALSE, tier |-> "fuzzy",
                   result |-> search_products_fuzzy(query, productDicts, top_n,
                                                    score_threshold, custom)]

\* the queries the model sends
q_sugar == <<"S", "u", "g", "a", "r">>
q_suger == <<"s", "u", "g", "e", "r">>
q_cheeni == <<"c", "h", "e", "e", "n", "i">>
q_maggi == <<"m", "a", "g", "g", "i">>
q_sweet == <<"s", "w", "e", "e", "t">>
q_cold == <<"s", "o", "m", "e", "t", "h", "i", "n", "g", " ", "f", "o", "r", " ",
            "c", "o", "l", "d">>
q_empty == <<>>
q_blank == <<" ">>
Queries == {q_sugar, q_suger, q_cheeni, q_maggi, q_sweet, q_cold, q_empty, q_blank}

\* the values of top_n and score_threshold the model passes
TopNs == {-1, 0, 1, 3}
Thresholds == {50, 100}

\* what the semantic matcher does for one call
LlmReply(text) == [kind |-> "reply", text |-> text]
LlmOutcomes ==
    {[kind |-> "no_client", text |-> <<>>],
     [kind |-> "raises", text |-> <<>>],
     LlmReply(<<"[", "2", ",", " ", "1", "]">>),
     LlmReply(<<"o", "k", " ", "[", "1", "]">>),
     LlmReply(<<"[", "]">>),
     LlmReply(<<"[", "1", " ", "2", "]">>),
     LlmReply(<<"[", "0", ",", "9", "]">>),
     LlmReply(<<"[", "9", ",", " ", "2", ",", " ", "1", "]">>),
     LlmReply(<<"[", "1", ",", " ", "1", "]">>),
     LlmReply(<<"n", "o">>)}

\* the words _spell holds once _load_product_vocab has run in this state
VocabAfterLoad ==
    load_product_vocab(product_vocab_loaded, spell_words, get_all_products(products, aisles))

\* GET /search and every direct call of search_products
Search ==
    /\ ret = Idle
    /\ \E query \in Queries, top_n \in TopNs, score_threshold \in Thresholds,
          llm \in LlmOutcomes :
          \E r \in {search_products(query, get_all_products(products, aisles), top_n,
                                    score_threshold, llm, VocabAfterLoad)} :
              /\ ret' = [op |-> "search_products", query |-> query, top_n |-> top_n,
                         score_threshold |-> score_threshold, llm |-> llm,
                         raised |-> r.raised, tier |-> r.tier, result |-> r.result]
              /\ product_vocab_loaded' = (product_vocab_loaded \/ r.tier = "fuzzy")
              /\ spell_words' = IF r.tier = "fuzzy" THEN VocabAfterLoad ELSE spell_words
    /\ UNCHANGED <<store_config, aisles, next_aisle_id, products, next_product_id>>
    /\ UNCHANGED <<request, settings, committed>>

\* a direct call of correct_query
CorrectQuery ==
    /\ ret = Idle
    /\ \E query \in Queries :
          ret' = [op |-> "correct_query", query |-> query,
                  words |-> SplitWs(Lower(query), 1, <<>>),
                  corrected |-> CorrectedWords(query, VocabAfterLoad),
                  result |-> correct_query(query, VocabAfterLoad)]
    /\ product_vocab_loaded' = TRUE
    /\ spell_words' = VocabAfterLoad
    /\ UNCHANGED <<store_config, aisles, next_aisle_id, products, next_product_id>>
    /\ UNCHANGED <<request, settings, committed>>

\* a direct call of expand_query
ExpandQuery ==
    /\ ret = Idle
    /\ \E query \in Queries :
          ret' = [op |-> "expand_query", query |-> query, result |-> expand_query(query)]
    /\ UNCHANGED <<store_config, aisles, next_aisle_id, products, next_product_id,
                   product_vocab_loaded, spell_words>>
    /\ UNCHANGED <<request, settings, committed>>

\* the caller takes the response; the next request can start
Respond ==
    /\ ret # Idle
    /\ ret' = Idle
    /\ UNCHANGED <<store_config, aisles, next_aisle_id, products, next_product_id,
                   product_vocab_loaded, spell_words>>
    /\ request' = NoRequest
    /\ UNCHANGED <<settings, committed>>

\* ----------------------------------------------------------------- assistant
\* A text of several lines is the sequence of its lines, each a sequence of
\* characters: "\n".join(lines) and text.split("\n") are then the identity,
\* which they are in the source as long as no joined piece holds a line
\* break; no text of the model does.

\* the characters of the literals of get_directions_to_product and
\* path_to_directions
LitText(s) ==
    CASE s = "Sorry, I couldn't find the location for aisle " ->
             <<"S", "o", "r", "r", "y", ",", " ", "I", " ", "c", "o", "u", "l", "d",
               "n", "'", "t", " ", "f", "i", "n", "d", " ", "t", "h", "e", " ", "l",
               "o", "c", "a", "t", "i", "o", "n", " ", "f", "o", "r", " ", "a", "i",
               "s", "l", "e", " ">>
      [] s = "Sorry, I couldn't find a path to aisle " ->
             <<"S", "o", "r", "r", "y", ",", " ", "I", " ", "c", "o", "u", "l", "d",
               "n", "'", "t", " ", "f", "i", "n", "d", " ", "a", " ", "p", "a", "t",
               "h", " ", "t", "o", " ", "a", "i", "s", "l", "e", " ">>
      [] s = "." -> <<".">>
      [] s = "Head to **Aisle " -> <<"H", "e", "a", "d", " ", "t", "o", " ", "*", "*",
                                     "A", "i", "s", "l", "e", " ">>
      [] s = "** (" -> <<"*", "*", " ", "(">>
      [] s = "): " -> <<")", ":", " ">>
      [] s = "Go " -> <<"G", "o", " ">>
      [] s = " for " -> <<" ", "f", "o", "r", " ">>
      [] s = " sections" -> <<" ", "s", "e", "c", "t", "i", "o", "n", "s">>
      [] s = " -> " -> <<" ", "-", ">", " ">>
      [] s = "right" -> <<"r", "i", "g", "h", "t">>
      [] s = "left" -> <<"l", "e", "f", "t">>
      [] s = "forward" -> <<"f", "o", "r", "w", "a", "r", "d">>
      [] s = "back" -> <<"b", "a", "c", "k">>
      [] s = "You're already there!" -> <<"Y", "o", "u", "'", "r", "e", " ", "a", "l",
                                          "r", "e", "a", "d", "y", " ", "t", "h", "e",
                                          "r", "e", "!">>

\* str(n) of a natural number
RECURSIVE Decimal(_)
Decimal(n) == IF n < 10 THEN <<Digits[n + 1]>> ELSE Decimal(n \div 10) \o <<Digits[(n % 10) + 1]>>

\* the characters of a formatted text
RECURSIVE Render(_)
Render(pieces) ==
    IF pieces = <<>> THEN <<>>
    ELSE LET p == pieces[1]
         IN  (IF p.k = "lit" THEN LitText(p.lit)
              ELSE IF p.k = "txt" THEN p.txt
              ELSE Decimal(p.num))
             \o Render(Tail(pieces))

\* text.replace(old, "") for a text old no occurrence of which overlaps
\* another one: the characters outside every occurrence, in their order
Remove(t, old) ==
    LET starts == {i \in 1..(Len(t) - Len(old) + 1) : SubSeq(t, i, i + Len(old) - 1) = old}
        kept == {i \in 1..Len(t) : ~\E j \in starts : j <= i /\ i < j + Len(old)}
    IN  [k \in 1..Cardinality(kept) |->
            t[CHOOSE i \in kept : Cardinality({j \in kept : j <= i}) = k]]

\* the literals generate_fallback_response looks for and answers with
ProductBullet == <<"-", " ", "*", "*">>
LocationLabel == <<"L", "o", "c", "a", "t", "i", "o", "n", ":">>
DirectionsLabel == <<"D", "i", "r", "e", "c", "t", "i", "o", "n", "s", ":">>
MatchingProducts ==
    <<"m", "a", "t", "c", "h", "i", "n", "g", " ", "p", "r", "o", "d", "u", "c", "t",
      "s", " ", "f", "r", "o", "m", " ", "t", "h", "e", " ", "s", "t", "o", "r", "e",
      " ", "i", "n", "v", "e", "n", "t", "o", "r", "y">>
NoMatchingProductsFound ==
    <<"N", "o", " ", "m", "a", "t", "c", "h", "i", "n", "g", " ", "p", "r", "o", "d",
      "u", "c", "t", "s", " ", "f", "o", "u", "n", "d">>
FoundAt == <<" ", "F", "o", "u", "n", "d", " ", "a", "t", " ", "*", "*">>
FoundAtEnd == <<"*", "*", ".">>
WhatIFound == <<"H", "e", "r", "e", "'", "s", " ", "w", "h", "a", "t", " ", "I", " ",
                "f", "o", "u", "n", "d", ".">>

\* format_product_for_llm(product), as lines.  The products the ranker is
\* given in the model carry the default price 0.0 and quantity '' and no
\* variants, so the Price and "Available in" parts are never appended.
format_product_for_llm(product) ==
    <<<<"-", " ", "*", "*">> \o product.name \o <<"*", "*">>
      \o (IF product.brand # <<>>
          THEN <<" ", "(", "B", "r", "a", "n", "d", ":", " ">> \o product.brand \o <<")">>
          ELSE <<>>)>>
    \o (IF product.category # <<>>
        THEN <<<<" ", " ", "C", "a", "t", "e", "g", "o", "r", "y", ":", " ">> \o product.category>>
        ELSE <<>>)
    \o (IF product.aisle_name # None /\ product.aisle_name[1] # <<>>
        THEN <<<<" ", " ", "L", "o", "c", "a", "t", "i", "o", "n", ":", " ", "A", "i",
                 "s", "l", "e", " ">> \o product.aisle_name[1]
               \o <<",", " ", "S", "h", "e", "l", "f", " ">> \o Decimal(product.shelf)>>
        ELSE <<>>)
    \o (IF product.section # None /\ product.section[1] # <<>>
        THEN <<<<" ", " ", "S", "e", "c", "t", "i", "o", "n", ":", " ">> \o product.section[1]>>
        ELSE <<>>)

NoMatchingProducts == <<"N", "o", " ", "m", "a", "t", "c", "h", "i", "n", "g", " ",
                        "p", "r", "o", "d", "u", "c", "t", "s", " ", "f", "o", "u",
                        "n", "d", " ", "i", "n", " ", "t", "h", "e", " ", "s", "t",
                        "o", "r", "e", " ", "i", "n", "v", "e", "n", "t", "o", "r",
                        "y", ".">>

\* the lines after the heading: each product's lines and an empty line
RECURSIVE ProductBlocks(_)
ProductBlocks(results) ==
    IF results = <<>> THEN <<>>
    ELSE format_product_for_llm(results[1].product) \o << <<>> >> \o ProductBlocks(Tail(results))

\* format_search_results_for_llm(products), as lines; the heading ends with a
\* line break of its own, which gives the empty line after it
format_search_results_for_llm(results) ==
    IF results = <<>> THEN <<NoMatchingProducts>>
    ELSE <<<<"H", "e", "r", "e", " ", "a", "r", "e", " ", "t", "h", "e", " ", "m", "a",
             "t", "c", "h", "i", "n", "g", " ", "p", "r", "o", "d", "u", "c", "t", "s",
             " ", "f", "r", "o", "m", " ", "t", "h", "e", " ", "s", "t", "o", "r", "e",
             " ", "i", "n", "v", "e", "n", "t", "o", "r", "y", ":">>, <<>>>>
         \o ProductBlocks(results)

\* build_context_prompt(user_query, search_results, directions_info), as lines
build_context_prompt(search_results, directions_info) ==
    Bind((IF search_results # <<>> THEN format_search_results_for_llm(search_results)
          ELSE <<>>)
         \o (IF directions_info # None /\ directions_info[1].found
             THEN << <<>>, DirectionsLabel \o <<" ">>
                           \o Render(directions_info[1].directions)>>
             ELSE <<>>), LAMBDA context_parts :
        IF context_parts # <<>> THEN context_parts ELSE <<NoMatchingProducts>>)

\* the f-string augmented_query of chat, as lines
augmented_query(user_query, context) ==
    <<<<"C", "u", "s", "t", "o", "m", "e", "r", "'", "s", " ", "q", "u", "e", "s", "t",
        "i", "o", "n", ":", " ", "\"">> \o user_query \o <<"\"">>,
      <<>>,
      <<"S", "t", "o", "r", "e", " ", "i", "n", "v", "e", "n", "t", "o", "r", "y", " ",
        "s", "e", "a", "r", "c", "h", " ", "r", "e", "s", "u", "l", "t", "s", ":">>>>
    \o context
    \o << <<>>,
          <<"P", "l", "e", "a", "s", "e", " ", "r", "e", "s", "p", "o", "n", "d", " ",
            "t", "o", " ", "t", "h", "e", " ", "c", "u", "s", "t", "o", "m", "e", "r",
            "'", "s", " ", "q", "u", "e", "s", "t", "i", "o", "n", " ", "u", "s", "i",
            "n", "g", " ", "t", "h", "e", " ", "i", "n", "f", "o", "r", "m", "a", "t",
            "i", "o", "n", " ", "a", "b", "o", "v", "e", ".", " ", "B", "e", " ", "c",
            "o", "n", "v", "e", "r", "s", "a", "t", "i", "o", "n", "a", "l", " ", "a",
            "n", "d", " ", "h", "e", "l", "p", "f", "u", "l", ".">>>>

\* the three replies random.choice draws from when nothing matched
no_match_silent == << << <<>> >>, << <<>> >>, << <<>> >> >>
no_match ==
    << <<<<"I", " ", "c", "o", "u", "l", "d", "n", "'", "t", " ", "f", "i", "n", "d",
           " ", "t", "h", "a", "t", " ", "i", "n", " ", "o", "u", "r", " ", "s", "t",
           "o", "r", "e", ".", " ", "T", "r", "y", " ", "a", " ", "d", "i", "f", "f",
           "e", "r", "e", "n", "t", " ", "s", "e", "a", "r", "c", "h", " ", "t", "e",
           "r", "m", " ", "o", "r", " ", "c", "a", "t", "e", "g", "o", "r", "y", " ",
           "(", "e", ".", "g", ".", ",", " ", "'", "s", "n", "a", "c", "k", "s", "'",
           ",", " ", "'", "d", "a", "i", "r", "y", "'", ",", " ", "'", "p", "e", "r",
           "s", "o", "n", "a", "l", " ", "c", "a", "r", "e", "'", ")", ".">>>>,
       <<<<"N", "o", " ", "e", "x", "a", "c", "t", " ", "m", "a", "t", "c", "h", ".",
           " ", "T", "r", "y", " ", "b", "r", "o", "a", "d", "e", "r", " ", "t", "e",
           "r", "m", "s", " ", "l", "i", "k", "e", " ", "t", "h", "e", " ", "p", "r",
           "o", "d", "u", "c", "t", " ", "c", "a", "t", "e", "g", "o", "r", "y", " ",
           "o", "r", " ", "b", "r", "a", "n", "d", " ", "n", "a", "m", "e", ".">>>>,
       <<<<"S", "o", "r", "r", "y", ",", " ", "t", "h", "a", "t", " ", "d", "o", "e",
           "s", "n", "'", "t", " ", "s", "e", "e", "m", " ", "t", "o", " ", "b", "e",
           " ", "i", "n", " ", "s", "t", "o", "c", "k", ".", " ", "C", "a", "n", " ",
           "y", "o", "u", " ", "d", "e", "s", "c", "r", "i", "b", "e", " ", "i", "t",
           " ", "d", "i", "f", "f", "e", "r", "e", "n", "t", "l", "y", "?">>>> >>

\* the three generic replies random.choice draws from.  The second sentence
\* of the first one holds a dash, written here in ASCII.
generic ==
    << <<<<"H", "i", "!", " ", "T", "y", "p", "e", " ", "w", "h", "a", "t", " ", "y",
           "o", "u", "'", "r", "e", " ", "l", "o", "o", "k", "i", "n", "g", " ", "f",
           "o", "r", " ", "-", " ", "l", "i", "k", "e", " ", "'", "m", "i", "l", "k",
           "'", ",", " ", "'", "s", "h", "a", "m", "p", "o", "o", "'", ",", " ", "o",
           "r", " ", "'", "s", "o", "m", "e", "t", "h", "i", "n", "g", " ", "f", "o",
           "r", " ", "a", " ", "c", "o", "l", "d", "'", " ", "-", " ", "a", "n", "d",
           " ", "I", "'", "l", "l", " ", "f", "i", "n", "d", " ", "i", "t", ".">>>>,
       <<<<"I", "'", "m", " ", "h", "e", "r", "e", " ", "t", "o", " ", "h", "e", "l",
           "p", " ", "y", "o", "u", " ", "f", "i", "n", "d", " ", "p", "r", "o", "d",
           "u", "c", "t", "s", ".", " ", "W", "h", "a", "t", " ", "d", "o", " ", "y",
           "o", "u", " ", "n", "e", "e", "d", " ", "t", "o", "d", "a", "y", "?">>>>,
       <<<<"W", "e", "l", "c", "o", "m", "e", "!", " ", "J", "u", "s", "t", " ", "t",
           "e", "l", "l", " ", "m", "e", " ", "w", "h", "a", "t", " ", "y", "o", "u",
           "'", "r", "e", " ", "l", "o", "o", "k", "i", "n", "g", " ", "f", "o", "r",
           ".">>>> >>

\* [l.strip() for l in lines]
StrippedLines(xs) == [i \in 1..Len(xs) |-> Strip(xs[i])]

IsProductLine(l) == StartsWith(Strip(l), ProductBullet)
HasLocation(l) == IsSubstr(LocationLabel, l)
IsDirectionsLine(l) == StartsWith(Strip(l), DirectionsLabel)

\* generate_fallback_response(messages): the reply, as lines, when
\* random.choice draws the entry number choice.  The pin and the walker the
\* source puts in front of the two sentences are written (pin) and (walk).
generate_fallback_response(messages, choice) ==
    Bind(IF messages # <<>> THEN messages[Len(messages)].content ELSE << <<>> >>,
         LAMBDA lines :
    Bind(StrippedLines(SelectSeq(lines, IsProductLine)), LAMBDA product_lines :
    Bind(StrippedLines(SelectSeq(lines, HasLocation)), LAMBDA location_lines :
    Bind(IF location_lines # <<>>
         THEN Strip(Remove(location_lines[1], LocationLabel))
         ELSE <<>>, LAMBDA location_info :
    Bind(StrippedLines(SelectSeq(lines, IsDirectionsLine)), LAMBDA direction_lines :
    Bind(IF direction_lines # <<>>
         THEN Strip(Remove(direction_lines[1], DirectionsLabel))
         ELSE <<>>, LAMBDA direction_line :
    Bind(IF location_info # <<>>
         THEN <<"(pin)">> \o FoundAt \o location_info \o FoundAtEnd
         ELSE WhatIFound, LAMBDA response :
        IF (\E i \in 1..Len(lines) : IsSubstr(MatchingProducts, lines[i]))
           /\ product_lines # <<>>
        THEN (IF direction_line # <<>>
              THEN <<response, <<>>, <<"(walk)", " ">> \o direction_line>>
              ELSE <<response>>)
        ELSE IF \E i \in 1..Len(lines) : IsSubstr(NoMatchingProductsFound, lines[i])
        THEN no_match[choice]
        ELSE generic[choice])))))))

\* generate_llm_response(messages)
generate_llm_response(messages, choice) == generate_fallback_response(messages, choice)

\* the system message of chat, abridged to its first sentence; the store name
\* it is formatted with is read by nothing the model follows
SYSTEM_PROMPT ==
    <<<<"Y", "o", "u", " ", "a", "r", "e", " ", "a", " ", "f", "r", "i", "e", "n", "d",
        "l", "y", " ", "a", "n", "d", " ", "h", "e", "l", "p", "f", "u", "l", " ", "s",
        "u", "p", "e", "r", "m", "a", "r", "k", "e", "t", " ", "s", "h", "o", "p", "p",
        "i", "n", "g", " ", "a", "s", "s", "i", "s", "t", "a", "n", "t">>>>

\* chat passes top_n=3 and leaves score_threshold at its default
ChatTopN == 3
DefaultScoreThreshold == 50

\* conversation_history[-6:]
HistoryWindow == 6
LastMessages(history) ==
    SubSeq(history, Max(1, Len(history) - HistoryWindow + 1), Len(history))

\* chat, asking for directions to the last product found
chat_to_last_product(user_query, conversation_history, productDicts, custom, llm, rows, cols, aisleRows, entrance_x, entrance_y, choice) ==
    Bind(search_products(user_query, productDicts, ChatTopN, DefaultScoreThreshold,
                         llm, custom), LAMBDA searched :
    Bind(searched.result, LAMBDA search_results :
    Bind(IF search_results # <<>>
         THEN Some(get_directions_to_product(search_results[Len(search_results)].product, rows, cols,
                                             aisleRows, entrance_x, entrance_y))
         ELSE None, LAMBDA directions_info :
    Bind(build_context_prompt(search_results, directions_info), LAMBDA context :
    Bind(<<[role |-> "system", content |-> SYSTEM_PROMPT]>>
         \o LastMessages(conversation_history)
         \o <<[role |-> "user", content |-> augmented_query(user_query, context)]>>,
         LAMBDA messages :
        [response |-> generate_llm_response(messages, choice),
         products |-> search_results,
         directions |-> directions_info,
         query |-> user_query,
         tier |-> searched.tier])))))

\* chat(user_query, conversation_history), given what its reads of the store
\* return, what the semantic matcher does and what random.choice draws
chat(user_query, conversation_history, productDicts, custom, llm, rows, cols, aisleRows, entrance_x, entrance_y, choice) ==
    Bind(search_products(user_query, productDicts, ChatTopN, DefaultScoreThreshold,
                         llm, custom), LAMBDA searched :
    Bind(searched.result, LAMBDA search_results :
    Bind(IF search_results # <<>>
         THEN Some(get_directions_to_product(search_results[1].product, rows, cols,
                                             aisleRows, entrance_x, entrance_y))
         ELSE None, LAMBDA directions_info :
    Bind(build_context_prompt(search_results, directions_info), LAMBDA context :
    Bind(<<[role |-> "system", content |-> SYSTEM_PROMPT]>>
         \o LastMessages(conversation_history)
         \o <<[role |-> "user", content |-> augmented_query(user_query, context)]>>,
         LAMBDA messages :
        [response |-> generate_llm_response(messages, choice),
         products |-> search_results,
         directions |-> directions_info,
         query |-> user_query,
         tier |-> searched.tier])))))

\* voice_chat(audio_bytes, conversation_history), given the text
\* transcribe_audio returns for the audio
voice_chat(transcription, conversation_history, productDicts, custom, llm, rows, cols, aisleRows, entrance_x, entrance_y, choice) ==
    [result |-> chat(transcription, conversation_history, productDicts, custom, llm,
                     rows, cols, aisleRows, entrance_x, entrance_y, choice),
     transcription |-> transcription]

\* ---------------------------------------------------------- assistant requests

\* the queries, histories and matcher outcomes the model sends to chat
\* a question that spells the label of the context block's location lines
q_location == <<"L", "o", "c", "a", "t", "i", "o", "n", ":", " ", "S", "u", "g", "a", "r">>
ChatQueries == {q_sugar, q_location, q_cold, q_empty, q_blank}
Transcriptions == {q_sugar, q_empty}
OneTurn == [role |-> "user", content |-> <<q_maggi>>]
Histories == {<<>>, <<OneTurn, OneTurn, OneTurn, OneTurn, OneTurn, OneTurn, OneTurn>>}
ChatLlmOutcomes ==
    {[kind |-> "no_client", text |-> <<>>],
     [kind |-> "raises", text |-> <<>>],
     LlmReply(<<"[", "2", ",", " ", "1", "]">>)}
Choices == {1, 2, 3}

\* chat on the current state of the store: every read sees this state
ChatNow(user_query, conversation_history, llm, choice) ==
    chat(user_query, conversation_history, get_all_products(products, aisles),
         VocabAfterLoad, llm,
         get_config(store_config, "grid_rows"), get_config(store_config, "grid_cols"),
         aisles,
         get_config(store_config, "entrance_x"), get_config(store_config, "entrance_y"),
         choice)

\* a direct call of chat (test_quick.py)
Chat ==
    /\ ret = Idle
    /\ \E user_query \in ChatQueries, conversation_history \in Histories,
          llm \in ChatLlmOutcomes, choice \in Choices :
          \E r \in {ChatNow(user_query, conversation_history, llm, choice)} :
              /\ ret' = [op |-> "chat", llm |-> llm, status |-> 200, result |-> r]
              /\ product_vocab_loaded' = (product_vocab_loaded \/ r.tier = "fuzzy")
              /\ spell_words' = IF r.tier = "fuzzy" THEN VocabAfterLoad ELSE spell_words
    /\ UNCHANGED <<store_config, aisles, next_aisle_id, products, next_product_id>>
    /\ UNCHANGED <<request, settings, committed>>

\* POST /chat: chat_endpoint
ChatEndpoint ==
    /\ ret = Idle
    /\ \E posted \in ChatQueries, llm \in ChatLlmOutcomes, choice \in Choices :
          \E query \in {Strip(posted)} :
              IF query = <<>>
              THEN /\ ret' = [op |-> "chat_endpoint", llm |-> llm, status |-> 400,
                              result |-> [error |-> "No query provided"]]
                   /\ UNCHANGED <<product_vocab_loaded, spell_words>>
              ELSE \E r \in {ChatNow(query, <<>>, llm, choice)} :
                   /\ ret' = [op |-> "chat_endpoint", llm |-> llm, status |-> 200,
                              result |-> r]
                   /\ product_vocab_loaded' = (product_vocab_loaded \/ r.tier = "fuzzy")
                   /\ spell_words' = IF r.tier = "fuzzy" THEN VocabAfterLoad
                                     ELSE spell_words
    /\ UNCHANGED <<store_config, aisles, next_aisle_id, products, next_product_id>>
    /\ UNCHANGED <<request, settings, committed>>

\* POST /voice and the voice page: voice_chat on what transcribe_audio heard
VoiceChat ==
    /\ ret = Idle
    /\ \E transcription \in Transcriptions, llm \in ChatLlmOutcomes, choice \in Choices :
          \E v \in {voice_chat(transcription, <<>>, get_all_products(products, aisles),
                              VocabAfterLoad, llm,
                              get_config(store_config, "grid_rows"),
                              get_config(store_config, "grid_cols"),
                              aisles,
                              get_config(store_config, "entrance_x"),
                              get_config(store_config, "entrance_y"),
                              choice)} :
              /\ ret' = [op |-> "voice_chat", llm |-> llm, status |-> 200,
                         result |-> v.result, transcription |-> v.transcription]
              /\ product_vocab_loaded' = (product_vocab_loaded \/ v.result.tier = "fuzzy")
              /\ spell_words' = IF v.result.tier = "fuzzy" THEN VocabAfterLoad
                                ELSE spell_words
    /\ UNCHANGED <<store_config, aisles, next_aisle_id, products, next_product_id>>
    /\ UNCHANGED <<request, settings, committed>>

\* ------------------------------------------------------------- catalog requests

\* POST /products and the admin form: add_product
AddProduct ==
    /\ ret = Idle
    /\ next_product_id <= MaxProducts
    /\ \E t \in ProductTemplates,
          aisle_id \in {None} \cup {Some(i) : i \in 1..MaxAisles} :
          LET added == add_product(products, aisles, next_product_id, t, aisle_id, 1)
          IN  /\ products' = added
              /\ next_product_id' = IF added = products THEN next_product_id
                                    ELSE next_product_id + 1
              /\ committed' = Commit(store_config, aisles, added)
              /\ WithinLog(committed')
    /\ UNCHANGED <<store_config, aisles, next_aisle_id, product_vocab_loaded,
                   spell_words, ret, request, settings>>

\* DELETE /products/<id> and the admin page: delete_product
DeleteProduct ==
    /\ ret = Idle
    /\ \E p \in products :
          /\ products' = delete_product(products, p.id)
          /\ committed' = Commit(store_config, aisles, delete_product(products, p.id))
          /\ WithinLog(committed')
    /\ UNCHANGED <<store_config, aisles, next_aisle_id, next_product_id,
                   product_vocab_loaded, spell_words, ret, request, settings>>

\* the state init_db leaves: the default configuration and empty tables
Init ==
    /\ store_config = DefaultConfig
    /\ aisles = {}
    /\ next_aisle_id = 1
    /\ products = {}
    /\ next_product_id = 1
    /\ product_vocab_loaded = FALSE
    /\ spell_words = {}
    /\ ret = Idle
    /\ request = NoRequest
    /\ settings = NotSaving
    /\ committed = <<>>

\* The ranker on its own: product changes and queries, no aisles.
NextSearch ==
    \/ AddProduct
    \/ DeleteProduct
    \/ Search
    \/ CorrectQuery
    \/ ExpandQuery
    \/ Respond

SpecSearch == Init /\ [][NextSearch]_vars

\* The assistant on its own: chat, the chat endpoint and voice_chat on a
\* store that add_aisle, add_product and the settings page have filled.
ConfigOf(rows, cols, entrance_x, entrance_y) ==
    [k \in ConfigKeys |->
        IF k = "grid_rows" THEN rows
        ELSE IF k = "grid_cols" THEN cols
        ELSE IF k = "entrance_x" THEN entrance_x
        ELSE entrance_y]

\* the stores: empty; Sugar in aisle A1 and Maggi in no aisle; the same on a
\* grid that A1 lies outside of; Maggi in an aisle at the entrance; two
\* Sugars, the first one in no aisle
ChatStores ==
    {[store_config |-> DefaultConfig, aisles |-> {}, products |-> {}],
     [store_config |-> DefaultConfig,
      aisles |-> {AisleRow(1, A1, Staples, 1, 2)},
      products |-> {ProductRow(1, Sugar, Some(1), 2), ProductRow(2, Maggi, None, 1)}],
     [store_config |-> ConfigOf(2, 2, 0, 0),
      aisles |-> {AisleRow(1, A1, Staples, 1, 2)},
      products |-> {ProductRow(1, Sugar, Some(1), 2), ProductRow(2, Maggi, None, 1)}],
     [store_config |-> DefaultConfig,
      aisles |-> {AisleRow(2, B2, Snacks, 0, 0)},
      products |-> {ProductRow(1, Maggi, Some(2), 1)}],
     [store_config |-> ConfigOf(6, 5, 2, 2),
      aisles |-> {AisleRow(1, A1, Staples, 1, 2), AisleRow(2, B2, Snacks, 3, 0)},
      products |-> {ProductRow(1, Sugar, None, 1), ProductRow(2, Sugar, Some(2), 1)}]}

\* _load_product_vocab has not run, or ran while the catalog was empty
InitChat ==
    /\ \E store \in ChatStores :
          /\ store_config = store.store_config
          /\ aisles = store.aisles
          /\ products = store.products
    /\ next_aisle_id = MaxAisles + 1
    /\ next_product_id = MaxProducts + 1
    /\ product_vocab_loaded \in BOOLEAN
    /\ spell_words = {}
    /\ ret = Idle
    /\ request = NoRequest
    /\ settings = NotSaving
    /\ committed = <<>>

NextChat ==
    \/ Search
    \/ Chat
    \/ ChatEndpoint
    \/ VoiceChat
    \/ Respond

SpecChat == InitChat /\ [][NextChat]_vars

\* ---------------------------------------------------- requests side by side

\* Each read of chat opens its own connection, and the admin pages and the
\* API write from other processes and threads: a commit can fall between any
\* two reads of one chat call.  Below, chat takes one step per read.

\* the semantic matcher has no client
NoClient == [kind |-> "no_client", text |-> <<>>]

ConcQueries == {q_sugar}

\* chat is called: nothing is read yet
ChatStart ==
    /\ ret = Idle
    /\ request.pc = "idle"
    /\ \E user_query \in ConcQueries :
          request' = [pc |-> "get_all_products", user_query |-> user_query,
                      since |-> Len(committed), until |-> Len(committed),
                      productDicts |-> <<>>, custom |-> {}, search_results |-> <<>>,
                      grid_rows |-> 0, grid_cols |-> 0, aisleRows |-> {},
                      entrance_x |-> 0, entrance_y |-> 0]
    /\ UNCHANGED <<store_config, aisles, next_aisle_id, products, next_product_id,
                   product_vocab_loaded, spell_words, ret, settings, committed>>

\* search_products: products = get_all_products(); an empty list is returned
\* as the result at once
ChatGetAllProducts ==
    /\ request.pc = "get_all_products"
    /\ request' = [request EXCEPT !.productDicts = get_all_products(products, aisles),
                                  !.pc = IF get_all_products(products, aisles) = <<>>
                                         THEN "respond" ELSE "search_products_fuzzy"]
    /\ UNCHANGED <<store_config, aisles, next_aisle_id, products, next_product_id,
                   product_vocab_loaded, spell_words, ret, settings, committed>>

\* search_products_fuzzy on the list read before: correct_query runs
\* _load_product_vocab, which reads get_all_products() again if it has not
\* run yet; chat asks for directions only if something was found
ChatSearchFuzzy ==
    /\ request.pc = "search_products_fuzzy"
    /\ \E found \in {search_products(request.user_query, request.productDicts, ChatTopN,
                                      DefaultScoreThreshold, NoClient,
                                      VocabAfterLoad).result} :
          request' = [request EXCEPT !.custom = VocabAfterLoad,
                                     !.search_results = found,
                                     !.pc = IF found = <<>> THEN "respond"
                                            ELSE "grid_rows"]
    /\ product_vocab_loaded' = TRUE
    /\ spell_words' = VocabAfterLoad
    /\ UNCHANGED <<store_config, aisles, next_aisle_id, products, next_product_id,
                   ret, settings, committed>>

\* the reads of get_directions_to_product, in the order it makes them
ReadOrder ==
    <<"grid_rows", "grid_cols", "get_all_aisles", "entrance_x", "entrance_y", "respond">>
ReadAfter(pc) == ReadOrder[1 + CHOOSE i \in 1..(Len(ReadOrder) - 1) : ReadOrder[i] = pc]

\* build_store_grid and get_directions_to_product: one get_config
ChatGetConfig ==
    /\ request.pc \in ConfigKeys
    /\ request' = [request EXCEPT ![request.pc] = get_config(store_config, request.pc),
                                  !.pc = ReadAfter(request.pc)]
    /\ UNCHANGED <<store_config, aisles, next_aisle_id, products, next_product_id,
                   product_vocab_loaded, spell_words, ret, settings, committed>>

\* build_store_grid: aisles = get_all_aisles()
ChatGetAllAisles ==
    /\ request.pc = "get_all_aisles"
    /\ request' = [request EXCEPT !.aisleRows = aisles, !.pc = ReadAfter(request.pc)]
    /\ UNCHANGED <<store_config, aisles, next_aisle_id, products, next_product_id,
                   product_vocab_loaded, spell_words, ret, settings, committed>>

\* chat returns what it makes of the values it read
ChatRespond ==
    /\ request.pc = "respond"
    /\ \E choice \in Choices :
          ret' = [op |-> "chat", llm |-> NoClient, status |-> 200,
                  result |-> chat(request.user_query, <<>>, request.productDicts,
                                  request.custom, NoClient,
                                  request.grid_rows, request.grid_cols, request.aisleRows,
                                  request.entrance_x, request.entrance_y, choice)]
    /\ request' = [request EXCEPT !.pc = "done", !.until = Len(committed)]
    /\ UNCHANGED <<store_config, aisles, next_aisle_id, products, next_product_id,
                   product_vocab_loaded, spell_words, settings, committed>>

\* the cells the model puts aisles in
AislePlaces == {<<0, 0>>, <<1, 2>>}

\* POST /aisles and the admin form: add_aisle
AddAisle ==
    /\ ret = Idle
    /\ next_aisle_id <= MaxAisles
    /\ \E name \in AisleNames, place \in AislePlaces :
          \E added \in {add_aisle(aisles, next_aisle_id, name, SectionOf(name),
                                  place[1], place[2])} :
              /\ aisles' = added
              /\ next_aisle_id' = IF added = aisles THEN next_aisle_id
                                  ELSE next_aisle_id + 1
              /\ committed' = Commit(store_config, added, products)
              /\ WithinLog(committed')
    /\ UNCHANGED <<store_config, products, next_product_id, product_vocab_loaded,
                   spell_words, ret, request, settings>>

\* PUT /aisles/<id>: update_aisle moves an aisle
UpdateAisle ==
    /\ ret = Idle
    /\ \E a \in aisles, place \in AislePlaces :
          \E updated \in {update_aisle(aisles, a.id, a.name, a.section,
                                       place[1], place[2])} :
              /\ aisles' = updated
              /\ committed' = Commit(store_config, updated, products)
              /\ WithinLog(committed')
    /\ UNCHANGED <<store_config, next_aisle_id, products, next_product_id,
                   product_vocab_loaded, spell_words, ret, request, settings>>

\* DELETE /aisles/<id> and the admin page: delete_aisle
DeleteAisle ==
    /\ ret = Idle
    /\ \E a \in aisles :
          /\ aisles' = delete_aisle(aisles, a.id)
          /\ products' = SetNullOnDelete(products, a.id)
          /\ committed' = Commit(store_config, delete_aisle(aisles, a.id),
                                 SetNullOnDelete(products, a.id))
          /\ WithinLog(committed')
    /\ UNCHANGED <<store_config, next_aisle_id, next_product_id,
                   product_vocab_loaded, spell_words, ret, request, settings>>

\* the settings form as submitted, and the order its keys are saved in
SettingsForms == {ConfigOf(2, 2, 0, 0)}
SaveOrder == <<"grid_rows", "grid_cols", "entrance_x", "entrance_y", "idle">>
SaveAfter(pc) == SaveOrder[1 + CHOOSE i \in 1..(Len(SaveOrder) - 1) : SaveOrder[i] = pc]

\* settings_page: the form is submitted; nothing is saved yet
SubmitSettings ==
    /\ ret = Idle
    /\ settings.pc = "idle"
    /\ \E form \in SettingsForms : settings' = [pc |-> SaveOrder[1], form |-> form]
    /\ UNCHANGED <<store_config, aisles, next_aisle_id, products, next_product_id,
                   product_vocab_loaded, spell_words, ret, request, committed>>

\* settings_page and POST /config: the next set_config, committed on its own
SaveSetting ==
    /\ ret = Idle
    /\ settings.pc \in ConfigKeys
    /\ \E saved \in {set_config(store_config, settings.pc, settings.form[settings.pc])} :
          /\ store_config' = saved
          /\ committed' = Commit(saved, aisles, products)
          /\ WithinLog(committed')
    /\ settings' = IF SaveAfter(settings.pc) = "idle" THEN NotSaving
                   ELSE [settings EXCEPT !.pc = SaveAfter(settings.pc)]
    /\ UNCHANGED <<aisles, next_aisle_id, products, next_product_id,
                   product_vocab_loaded, spell_words, ret, request>>

\* a store with Sugar in aisle A1, and the commit log started
InitConc ==
    /\ store_config = DefaultConfig
    /\ aisles = {AisleRow(1, A1, Staples, 1, 2)}
    /\ next_aisle_id = 2
    /\ products = {ProductRow(1, Sugar, Some(1), 2)}
    /\ next_product_id = 2
    /\ product_vocab_loaded = FALSE
    /\ spell_words = {}
    /\ ret = Idle
    /\ request = NoRequest
    /\ settings = NotSaving
    /\ committed = <<Tables(store_config, aisles, products)>>

NextConc ==
    \/ ChatStart
    \/ ChatGetAllProducts
    \/ ChatSearchFuzzy
    \/ ChatGetConfig
    \/ ChatGetAllAisles
    \/ ChatRespond
    \/ Respond
    \/ AddAisle
    \/ UpdateAisle
    \/ DeleteAisle
    \/ AddProduct
    \/ DeleteProduct
    \/ SubmitSettings
    \/ SaveSetting

SpecConc == InitConc /\ [][NextConc]_vars

\* ------------------------------------------------------- navigator requests

\* product dicts handed to get_directions_to_product: located in A1, in B2,
\* in an aisle no table row names, with a NULL aisle, and without the key
NavProductInputs ==
    {[has_aisle_name |-> TRUE, aisle_name |-> Some(A1), section |-> Some(Staples)],
     [has_aisle_name |-> TRUE, aisle_name |-> Some(B2), section |-> Some(Snacks)],
     [has_aisle_name |-> TRUE, aisle_name |-> Some(Z9), section |-> Some(Snacks)],
     [has_aisle_name |-> TRUE, aisle_name |-> None, section |-> None],
     [has_aisle_name |-> FALSE, aisle_name |-> None, section |-> None]}

\* a direct call of get_directions_to_product (test_quick.py, chat)
GetDirections ==
    /\ ret = Idle
    /\ \E product \in NavProductInputs :
          ret' = [op |-> "get_directions_to_product",
                  product |-> product,
                  result |-> get_directions_to_product(
                                product,
                                get_config(store_config, "grid_rows"),
                                get_config(store_config, "grid_cols"),
                                aisles,
                                get_config(store_config, "entrance_x"),
                                get_config(store_config, "entrance_y"))]
    /\ UNCHANGED <<store_config, aisles, next_aisle_id, products, next_product_id,
                   product_vocab_loaded, spell_words>>
    /\ UNCHANGED <<request, settings, committed>>

\* The navigator on its own: the store is any state add_aisle and set_config
\* can leave behind within the bounds (grid sizes 1..MaxDim, entrance and
\* aisle coordinates 0..MaxDim, so that cells outside the grid occur).
NavStores ==
    {{}} \cup {{AisleRow(1, A1, Staples, x, y)} : x \in 0..MaxDim, y \in 0..MaxDim}
         \cup {{AisleRow(1, A1, Staples, x, y), AisleRow(2, B2, Snacks, 0, 0)} :
                    x \in 0..MaxDim, y \in 0..MaxDim}

InitNav ==
    /\ store_config \in [ConfigKeys -> 0..MaxDim]
    /\ store_config["grid_rows"] >= 1
    /\ store_config["grid_cols"] >= 1
    /\ aisles \in NavStores
    /\ next_aisle_id = 3
    /\ products = {}
    /\ next_product_id = 1
    /\ product_vocab_loaded = FALSE
    /\ spell_words = {}
    /\ ret = Idle
    /\ request = NoRequest
    /\ settings = NotSaving
    /\ committed = <<>>

NextNav == GetDirections

SpecNav == InitNav /\ [][NextNav]_vars

\* ------------------------------------------------------------ claims: C1, C5

Abs(n) == IF n < 0 THEN -n ELSE n

InsideGrid(x, y) ==
    /\ 0 <= x /\ x < store_config["grid_rows"]
    /\ 0 <= y /\ y < store_config["grid_cols"]

EntranceInside == InsideGrid(store_config["entrance_x"], store_config["entrance_y"])

\* the rows of table aisles a product dict's aisle_name refers to
NamedAisles(product) ==
    {a \in aisles : product.has_aisle_name /\ product.aisle_name = Some(a.name)}

\* C1: BFS optimality.  Whenever the entrance lies inside the grid and the
\* product's aisle lies inside the grid, get_directions_to_product finds a
\* path of exactly Manhattan distance + 1 cells, and steps is the Manhattan
\* distance between the entrance and the aisle's cell.
C1_BfsOptimal ==
    ret.op = "get_directions_to_product" =>
        \A a \in NamedAisles(ret.product) :
            (EntranceInside /\ InsideGrid(a.grid_x, a.grid_y)) =>
                LET manhattan == Abs(a.grid_x - store_config["entrance_x"])
                                 + Abs(a.grid_y - store_config["entrance_y"])
                IN  /\ ret.result.found
                    /\ Len(ret.result.path) = manhattan + 1
                    /\ ret.result.steps = Some(manhattan)

\* C1 witness: a path with a turn (both coordinates differ) was returned
C1_Witness ==
    /\ ret.op = "get_directions_to_product"
    /\ EntranceInside
    /\ ret.result.found
    /\ Len(ret.result.path) = 5
    /\ \E a \in NamedAisles(ret.product) :
          /\ a.grid_x # store_config["entrance_x"]
          /\ a.grid_y # store_config["entrance_y"]

\* the aisle_name of the product dict is absent, None or no key of the lookup
AisleNameMissing(product) ==
    \/ ~product.has_aisle_name
    \/ product.aisle_name = None
    \/ ~\E a \in aisles : /\ product.aisle_name = Some(a.name)
                          /\ InsideGrid(a.grid_x, a.grid_y)

\* the text the apology names the aisle with
NamedInApology(product) ==
    IF ~product.has_aisle_name THEN <<>>
    ELSE IF product.aisle_name = None THEN StrOfNone
    ELSE product.aisle_name[1]

Catalog == get_all_products(products, aisles)

\* a search_products call on a non-empty catalog has returned
Searched == ret.op = "search_products" /\ Catalog # <<>>

ListedNumbers(inner) ==
    LET parts == SplitComma(inner, 1, <<>>)
    IN  {IntOf(Strip(parts[i])) : i \in {k \in 1..Len(parts) : IsJsonInt(Strip(parts[k]))}}

\* a reply that holds a bracketed list of whole numbers naming a product of
\* a catalog of n products
NamesAProduct(text, n) ==
    \E i \in 1..Len(text), j \in 1..Len(text) :
        /\ i < j /\ text[i] = "[" /\ text[j] = "]"
        /\ \E m \in ListedNumbers(SubSeq(text, i + 1, j - 1)) : 1 <= m /\ m <= n

\* the semantic matcher is not configured, raises, or replies without a
\* bracketed integer list that names a product
SemanticTierFails ==
    \/ ret.llm.kind = "no_client"
    \/ ret.llm.kind = "raises"
    \/ ret.llm.kind = "reply" /\ ~NamesAProduct(ret.llm.text, Len(Catalog))

\* C3: whenever the semantic matcher is not configured, raises, replies with
\* no well-formed bracketed integer list or yields no in-range index,
\* search_products returns exactly what search_products_fuzzy returns for the
\* same query, catalog, top_n and threshold, and no error reaches the caller.
C3_FallsBackToFuzzy ==
    (Searched /\ SemanticTierFails) =>
        /\ ~ret.raised
        /\ ret.result = search_products_fuzzy(ret.query, Catalog, ret.top_n,
                                              ret.score_threshold, spell_words)

\* C3 witness: the matcher raised and the caller got the fuzzy tier's entries
C3_Witness ==
    /\ Searched
    /\ ret.llm.kind = "raises"
    /\ ~ret.raised
    /\ ret.tier = "fuzzy"
    /\ ret.result # <<>>

\* the terms the fuzzy tier scores for the query of the returned call
TermsOfCall == expand_query(correct_query(ret.query, spell_words))

\* the product's lowercased name contains one of the terms
NameContainsTerm(product) ==
    \E k \in 1..Len(TermsOfCall) : IsSubstr(TermsOfCall[k], Lower(product.name))

\* C4: in the fuzzy tier, every product whose lowercased name contains the
\* corrected query or any expanded term as a substring scores at least 95:
\* its best_score is at least 95, every entry returned for it carries a
\* match_score of at least 95, and it is returned whenever the threshold is
\* at most 95 and top_n does not cut the list.
C4_SubstringFloor ==
    (Searched /\ ret.tier = "fuzzy") =>
        \A i \in 1..Len(Catalog) :
            NameContainsTerm(Catalog[i]) =>
                /\ BestScore(TermsOfCall, Catalog[i]) >= 9500
                /\ \A k \in 1..Len(ret.result) :
                      ret.result[k].product = Catalog[i] =>
                          ret.result[k].match_score >= 950
                /\ (ret.score_threshold <= 95 /\ ret.top_n >= Len(Catalog)) =>
                      \E k \in 1..Len(ret.result) : ret.result[k].product = Catalog[i]

\* C4 witness: the query "sweet" is no part of the name Sugar, its expanded
\* term "sugar" is, and Sugar is returned with a match_score of at least 95
C4_Witness ==
    /\ Searched
    /\ ret.tier = "fuzzy"
    /\ ret.query = q_sweet
    /\ \E k \in 1..Len(ret.result) :
          /\ ~IsSubstr(Lower(ret.query), Lower(ret.result[k].product.name))
          /\ NameContainsTerm(ret.result[k].product)
          /\ ret.result[k].match_score >= 950

\* the synonym lists of the INTENT_MAP keys that occur in the text
SynonymsFor(query_lower) ==
    UNION {SeqToSet(INTENT_MAP[k].keywords) :
              k \in {n \in 1..Len(INTENT_MAP) : IsSubstr(INTENT_MAP[n].intent, query_lower)}}

paracetamol == <<"p", "a", "r", "a", "c", "e", "t", "a", "m", "o", "l">>
cough == <<"c", "o", "u", "g", "h">>

\* C10: expand_query returns exactly the lowercased query together with the
\* synonym lists of every INTENT_MAP key that is a substring of the lowercased
\* query; the result has no duplicates and is never empty, and "something for
\* cold" yields "paracetamol" and "cough".
C10_ExpandQuery ==
    ret.op = "expand_query" =>
        /\ SeqToSet(ret.result) = {Lower(ret.query)} \cup SynonymsFor(Lower(ret.query))
        /\ Cardinality(SeqToSet(ret.result)) = Len(ret.result)
        /\ ret.result # <<>>
        /\ ret.query = q_cold => {paracetamol, cough} \subseteq SeqToSet(ret.result)

\* C10 witness: "something for cold" was expanded to itself and the eight
\* synonyms of "cold"
C10_Witness ==
    /\ ret.op = "expand_query"
    /\ ret.query = q_cold
    /\ Len(ret.result) = 9
    /\ paracetamol \in SeqToSet(ret.result)

\* ------------------------------------------------------ claims: C6, C7, C9

\* a text, held as its lines, that has at least one character
NonEmptyText(lines) == Len(lines) > 1 \/ (Len(lines) = 1 /\ lines[1] # <<>>)

\* chat has answered: called directly, through POST /chat, or by voice_chat
ChatAnswered ==
    /\ ret.op \in {"chat", "chat_endpoint", "voice_chat"}
    /\ ret.status = 200

\* C6: for every query, conversation history and catalog state (an empty
\* catalog and a query that matches nothing included), chat returns a
\* non-empty response text.
C6_ReplyNonEmpty ==
    ChatAnswered => NonEmptyText(ret.result.response)

\* C6 witness: on a catalog that has products, a query matched none of them
\* and chat answered with one of its no-match sentences
C6_Witness ==
    /\ ChatAnswered
    /\ Catalog # <<>>
    /\ ret.result.products = <<>>
    /\ ret.result.response \in {no_match[c] : c \in Choices}
    /\ NonEmptyText(ret.result.response)

\* a call whose query is empty or only whitespace has returned
EmptyQueryCall ==
    \/ ret.op = "search_products" /\ Strip(ret.query) = <<>>
    \/ ret.op \in {"chat", "voice_chat"} /\ Strip(ret.result.query) = <<>>

\* C7 as stated: an empty (or whitespace-only) query yields an empty result
\* set and neither ranking tier is invoked; this holds for search_products,
\* for chat, and for voice_chat when the transcription is empty.
C7_Original ==
    EmptyQueryCall =>
        IF ret.op = "search_products"
        THEN ret.result = <<>> /\ ret.tier \notin {"llm", "fuzzy"}
        ELSE ret.result.products = <<>> /\ ret.result.tier \notin {"llm", "fuzzy"}

\* the words of the products in the catalog now
CurrentProductWords == UNION {ProductWords(Catalog[i]) : i \in 1..Len(Catalog)}

\* C9 as stated: correct_query leaves unchanged every token that is known to
\* the general dictionary or is a word of a product currently in the catalog,
\* at any point in any sequence of catalog mutations and earlier queries; the
\* number and order of tokens is preserved.
C9_Original ==
    ret.op = "correct_query" =>
        /\ Len(ret.corrected) = Len(ret.words)
        /\ \A i \in 1..Len(ret.words) :
              ret.words[i] \in EnglishWords \cup CurrentProductWords =>
                  ret.corrected[i] = ret.words[i]

\* --------------------------------------------------------------- claims: C8

\* the commits one chat call ran alongside: the state it started in and
\* every state committed before it returned
CommitsDuring(r) == {committed[k] : k \in r.since..r.until}

\* what a chat call read is what the tables held in state s
ReadsReflect(r, s) ==
    /\ r.productDicts = get_all_products(s.products, s.aisles)
    /\ r.search_results # <<>> =>
          /\ r.aisleRows = s.aisles
          /\ r.grid_rows = get_config(s.store_config, "grid_rows")
          /\ r.grid_cols = get_config(s.store_config, "grid_cols")
          /\ r.entrance_x = get_config(s.store_config, "entrance_x")
          /\ r.entrance_y = get_config(s.store_config, "entrance_y")

\* C8 as stated: while aisle, product and configuration writes interleave
\* with a query, all the reads made for that query (the product listing used
\* for ranking, the aisle listing, the grid dimensions and the entrance
\* coordinates) reflect one single committed state; no result combines values
\* from before and after a write.
C8_Original ==
    request.pc = "done" => \E s \in CommitsDuring(request) : ReadsReflect(request, s)

\* -------------------------------------------------------------- claims: C11

\* the keyword tags of a product: the comma-separated pieces, stripped
KeywordTags(p) ==
    IF p.keywords = <<>> THEN {}
    ELSE {Strip(w) : w \in SeqToSet(SplitComma(Lower(p.keywords), 1, <<>>))}

\* the query of the call that returned is a keyword tag of product p and no
\* substring of its name
QueryIsTagOf(p) ==
    /\ ret.query \in KeywordTags(p)
    /\ ~IsSubstr(Lower(ret.query), Lower(p.name))

\* C11 as stated: in the fuzzy tier, a query that equals one of a product's
\* keyword tags (and is not a substring of its name) surfaces that product
\* with match_score >= 75: with the default threshold of 50 the product is in
\* the result, unless top_n products that score at least as high fill it.
C11_Original ==
    (Searched /\ ret.tier = "fuzzy" /\ ret.score_threshold = DefaultScoreThreshold
              /\ ret.top_n >= 0) =>
        \A i \in 1..Len(Catalog) :
            QueryIsTagOf(Catalog[i]) =>
                \/ \E k \in 1..Len(ret.result) :
                      /\ ret.result[k].product = Catalog[i]
                      /\ ret.result[k].match_score >= 750
                \/ /\ Len(ret.result) = ret.top_n
                   /\ \A k \in 1..Len(ret.result) : ret.result[k].match_score >= 750

\* -------------------------------------------------------------- claims: C12

\* the entrance cell as stored
Entrance == <<store_config["entrance_x"], store_config["entrance_y"]>>

\* C12 as stated: when the target aisle's cell equals the entrance cell,
\* get_directions_to_product returns found = true, the single-point path
\* [entrance], steps = 0 and a directions text whose instruction part is the
\* "You're already there!" phrase.
C12_Original ==
    ret.op = "get_directions_to_product" =>
        \A a \in NamedAisles(ret.product) :
            <<a.grid_x, a.grid_y>> = Entrance =>
                /\ ret.result.found
                /\ ret.result.path = <<Entrance>>
                /\ ret.result.steps = Some(0)
                /\ ret.result.directions[Len(ret.result.directions)] = AlreadyThere[1]

\* -------------------------------------------------------------- claims: C13

\* get_directions_to_product(product) in the current state of the store
DirectionsNow(product) ==
    get_directions_to_product(product,
                              get_config(store_config, "grid_rows"),
                              get_config(store_config, "grid_cols"),
                              aisles,
                              get_config(store_config, "entrance_x"),
                              get_config(store_config, "entrance_y"))

\* C13: chat asks the navigator for directions exactly when the ranker
\* returned at least one product, and then for the first (top-ranked) product:
\* the returned directions are absent if and only if the returned product
\* list is empty, and otherwise they are the navigator's result for the first
\* product of the list.
C13_DirectionsForTopProduct ==
    ChatAnswered =>
        /\ (ret.result.directions = None) <=> (ret.result.products = <<>>)
        /\ ret.result.products # <<>> =>
              ret.result.directions = Some(DirectionsNow(ret.result.products[1].product))

\* C13 witness: two products were found, the directions lead to the first
\* one's aisle, and the navigator has no directions to the second one
C13_Witness ==
    /\ ChatAnswered
    /\ Len(ret.result.products) = 2
    /\ ret.result.directions # None
    /\ ret.result.directions[1].found
    /\ ~DirectionsNow(ret.result.products[2].product).found

\* -------------------------------------------------------------- claims: C14

\* C14: with an empty catalog, search_products returns the empty sequence for
\* every query, without raising and without calling the semantic matcher, the
\* spell corrector or the fuzzy scorer: no tier produces the result, and the
\* corrector's vocabulary is neither loaded nor changed by the call.
C14_EmptyCatalog ==
    [][(ret = Idle /\ ret'.op = "search_products" /\ Catalog = <<>>) =>
          /\ ret'.result = <<>>
          /\ ~ret'.raised
          /\ ret'.tier = "empty"
          /\ UNCHANGED <<product_vocab_loaded, spell_words>>]_vars

\* C14 witness: a search on the empty catalog returned while a semantic
\* matcher that answers was configured and the vocabulary was never loaded
C14_Witness ==
    /\ ret.op = "search_products"
    /\ Catalog = <<>>
    /\ ret.llm.kind = "reply"
    /\ ret.query = q_sugar
    /\ ret.result = <<>>
    /\ ~product_vocab_loaded

\* ------------------------------------------------------------- claims: C15

\* the context block chat built for its answer
ContextBlock == build_context_prompt(ret.result.products, ret.result.directions)

\* the location lines of the context block, label removed
ContextLocations ==
    [i \in 1..Len(SelectSeq(ContextBlock, HasLocation)) |->
        Strip(Remove(SelectSeq(ContextBlock, HasLocation)[i], LocationLabel))]

DirectionsFound == ret.result.directions # None /\ ret.result.directions[1].found

\* the direction sentence of the reply
DirectionSentence == <<"(walk)", " ">> \o Render(ret.result.directions[1].directions)

\* C15: the fallback reply is derived from the context block by cases: with
\* products matched and a location line in the block the reply is "Found
\* at <location>." followed by the direction sentence exactly when
\* directions were found; with no product matched it is one of the no-match
\* sentences; a greeting is returned only without any search context, which
\* a chat message always carries.
C15_Original ==
    ChatAnswered =>
        /\ (ret.result.products # <<>> /\ ContextLocations # <<>>) =>
              /\ ret.result.response[1]
                    = <<"(pin)">> \o FoundAt \o ContextLocations[1] \o FoundAtEnd
              /\ IF DirectionsFound
                 THEN ret.result.response
                         = <<ret.result.response[1], <<>>, DirectionSentence>>
                 ELSE Len(ret.result.response) = 1
        /\ ret.result.products = <<>> =>
              \E c \in Choices : ret.result.response = no_match[c]
        /\ \A c \in Choices : ret.result.response # generic[c]

\* ------------------------------------------------------------- claims: C16

\* the "couldn't find a path" failure of get_directions_to_product
NoPathFailure(result) ==
    /\ ~result.found
    /\ result.target # None
    /\ result.directions[1] = Lit("Sorry, I couldn't find a path to aisle ")

\* C16 as stated: for every stored configuration and every aisle registered
\* in the navigator's lookup, bfs_path finds a path from the entrance to the
\* aisle's cell, so get_directions_to_product never returns the "couldn't
\* find a path" failure.
C16_Original ==
    ret.op = "get_directions_to_product" =>
        /\ \A a \in NamedAisles(ret.product) :
              InsideGrid(a.grid_x, a.grid_y) =>
                  bfs_path(Entrance, <<a.grid_x, a.grid_y>>,
                           store_config["grid_rows"], store_config["grid_cols"]) # None
        /\ ~NoPathFailure(ret.result)

\* ------------------------------------------------------------- claims: C17

\* get_directions_to_product returned its missing-aisle failure
MissingAisleResult ==
    /\ ret.op = "get_directions_to_product"
    /\ AisleNameMissing(ret.product)

\* C17 as stated: the missing-aisle failure result carries the entrance
\* coordinate as both its entrance and its target.
C17_Original ==
    MissingAisleResult =>
        /\ ret.result.entrance = Entrance
        /\ ret.result.target = Some(Entrance)

\* C17, amended: the missing-aisle failure result carries the stored entrance
\* coordinate as its entrance and no target.
C17_EntranceAndNoTarget ==
    MissingAisleResult =>
        /\ ret.result.entrance = Entrance
        /\ ret.result.target = None

\* C17 witness: the missing-aisle result for an aisle that lies outside the
\* grid, with the entrance away from the origin
C17_Witness ==
    /\ MissingAisleResult
    /\ ~ret.result.found
    /\ Entrance = <<1, 2>>
    /\ ret.result.entrance = <<1, 2>>
    /\ \E a \in NamedAisles(ret.product) : ~InsideGrid(a.grid_x, a.grid_y)

\* --------------------------------------------------------- store administration

\* update_product: the table afterwards.  No row has the id: nothing changes.
\* PRAGMA foreign_keys = ON makes the UPDATE raise, and change nothing, when
\* aisle_id names no aisle.
update_product(productRows, aisleRows, product_id, t, aisle_id, shelf, price, quantity) ==
    IF aisle_id # None /\ ~\E a \in aisleRows : a.id = aisle_id[1]
    THEN productRows
    ELSE {IF p.id = product_id
          THEN [ProductRow(p.id, t, aisle_id, shelf) EXCEPT !.price = price,
                                                            !.quantity = quantity]
          ELSE p : p \in productRows}

\* the bodies PUT /products/<id> is sent.  A field is None when the body
\* leaves the key out and Some(value) when it carries it; the value of
\* aisle_id is itself None for a JSON null.
EditBodies ==
    {[aisle_id |-> a, shelf |-> sh] :
        a \in {None, Some(None)} \cup {Some(Some(i)) : i \in 1..MaxAisles},
        sh \in {None, Some(3)}}

\* data.get(key, existing[key])
BodyGet(field, existing) == IF field # None THEN field[1] ELSE existing

\* the status edit_product answers with: 404 for an unknown id, 500 when
\* update_product raises on the foreign key, else 200
EditStatus(productRows, aisleRows, product_id, data) ==
    IF ~\E p \in productRows : p.id = product_id THEN 404
    ELSE IF \E p \in productRows :
               /\ p.id = product_id
               /\ BodyGet(data.aisle_id, p.aisle_id) # None
               /\ ~\E a \in aisleRows : a.id = BodyGet(data.aisle_id, p.aisle_id)[1]
         THEN 500
         ELSE 200

\* edit_product(product_id): table products afterwards.  update_product is
\* called without price and quantity, which take its defaults 0.0 and ''.
edit_product(productRows, aisleRows, product_id, data) ==
    IF ~\E p \in productRows : p.id = product_id THEN productRows
    ELSE LET existing == CHOOSE p \in productRows : p.id = product_id
         IN  update_product(productRows, aisleRows, product_id, existing,
                            BodyGet(data.aisle_id, existing.aisle_id),
                            BodyGet(data.shelf, existing.shelf), 0, <<>>)

\* PUT /products/<id>
EditProduct ==
    /\ ret = Idle
    /\ \E product_id \in 1..MaxProducts, data \in EditBodies :
          \E updated \in {edit_product(products, aisles, product_id, data)} :
              /\ products' = updated
              /\ ret' = [op |-> "edit_product", product_id |-> product_id,
                         data |-> data,
                         status |-> EditStatus(products, aisles, product_id, data)]
              /\ committed' = Commit(store_config, aisles, updated)
              /\ WithinLog(committed')
    /\ UNCHANGED <<store_config, aisles, next_aisle_id, next_product_id,
                   product_vocab_loaded, spell_words, request, settings>>

\* the entries of data/sample_data.json the model seeds, in the shape
\* seed_sample_data reads them: one aisle, and one product in it with a
\* price and a quantity
SampleData ==
    [aisles |-> <<[name |-> A1, section |-> Staples, grid_x |-> 0, grid_y |-> 2]>>,
     products |-> <<[t |-> Sugar, aisle |-> A1, shelf |-> 2, price |-> 45,
                     quantity |-> <<"1", "k", "g">>]>>]

\* the loop "for aisle in data.get('aisles', [])" from entry k on.  st is
\* [aisles, next_aisle_id, aisle_map, raised]; add_aisle raises on a name
\* table aisles already has, and the rows added before it stay committed.
RECURSIVE SeedAisles(_, _, _)
SeedAisles(st, sample, k) ==
    IF k > Len(sample) \/ st.raised THEN st
    ELSE IF \E a \in st.aisles : a.name = sample[k].name
    THEN [st EXCEPT !.raised = TRUE]
    ELSE SeedAisles([st EXCEPT
                        !.aisles = add_aisle(@, st.next_aisle_id, sample[k].name,
                                             sample[k].section, sample[k].grid_x,
                                             sample[k].grid_y),
                        !.next_aisle_id = @ + 1,
                        !.aisle_map = @ \cup {<<sample[k].name, st.next_aisle_id>>}],
                    sample, k + 1)

\* aisle_map.get(product.get("aisle", ""), None)
AisleMapGet(aisle_map, name) ==
    IF \E e \in aisle_map : e[1] = name
    THEN Some((CHOOSE e \in aisle_map : e[1] = name)[2])
    ELSE None

\* the loop "for product in data.get('products', [])" from entry k on: st is
\* [products, next_product_id]
RECURSIVE SeedProducts(_, _, _, _)
SeedProducts(st, sample, aisle_map, k) ==
    IF k > Len(sample) THEN st
    ELSE SeedProducts(
            [products |-> st.products \cup
                 {[ProductRow(st.next_product_id, sample[k].t,
                              AisleMapGet(aisle_map, sample[k].aisle), sample[k].shelf)
                      EXCEPT !.price = sample[k].price,
                             !.quantity = sample[k].quantity]},
             next_product_id |-> st.next_product_id + 1],
            sample, aisle_map, k + 1)

\* seed_sample_data(): the tables and counters afterwards, and whether it
\* raised.  It returns at once when table products has a row.
seed_sample_data(productRows, aisleRows, aisle_counter, product_counter) ==
    IF productRows # {}
    THEN [aisles |-> aisleRows, next_aisle_id |-> aisle_counter,
          products |-> productRows, next_product_id |-> product_counter,
          raised |-> FALSE]
    ELSE Bind(SeedAisles([aisles |-> aisleRows, next_aisle_id |-> aisle_counter,
                          aisle_map |-> {}, raised |-> FALSE],
                         SampleData.aisles, 1), LAMBDA seeded :
         Bind(IF seeded.raised
              THEN [products |-> productRows, next_product_id |-> product_counter]
              ELSE SeedProducts([products |-> productRows,
                                 next_product_id |-> product_counter],
                                SampleData.products, seeded.aisle_map, 1), LAMBDA filled :
            [aisles |-> seeded.aisles, next_aisle_id |-> seeded.next_aisle_id,
             products |-> filled.products, next_product_id |-> filled.next_product_id,
             raised |-> seeded.raised]))

\* a start of the API process: api.py calls seed_sample_data() when it is
\* imported
SeedSampleData ==
    /\ ret = Idle
    /\ \E r \in {seed_sample_data(products, aisles, next_aisle_id, next_product_id)} :
          /\ r.next_aisle_id <= MaxAisles + 1
          /\ r.next_product_id <= MaxProducts + 1
          /\ aisles' = r.aisles
          /\ next_aisle_id' = r.next_aisle_id
          /\ products' = r.products
          /\ next_product_id' = r.next_product_id
          /\ ret' = [op |-> "seed_sample_data", raised |-> r.raised]
          /\ committed' = Commit(store_config, r.aisles, r.products)
          /\ WithinLog(committed')
    /\ UNCHANGED <<store_config, product_vocab_loaded, spell_words, request, settings>>

\* the bodies POST /config is sent: one key and its value
ConfigPosts ==
    {[key |-> "grid_rows", value |-> 1],
     [key |-> "grid_cols", value |-> 2],
     [key |-> "entrance_y", value |-> 2]}

\* POST /config: update_store_config calls set_config for each item of the body
UpdateStoreConfig ==
    /\ ret = Idle
    /\ \E data \in ConfigPosts :
          \E saved \in {set_config(store_config, data.key, data.value)} :
              /\ store_config' = saved
              /\ committed' = Commit(saved, aisles, products)
              /\ WithinLog(committed')
    /\ UNCHANGED <<aisles, next_aisle_id, products, next_product_id,
                   product_vocab_loaded, spell_words, ret, request, settings>>

\* get_directions_to_product for a product dict of the catalog, as chat calls
\* it for a search result (test_quick.py calls it the same way)
DirectionsToProduct ==
    /\ ret = Idle
    /\ \E i \in 1..Len(Catalog) :
          ret' = [op |-> "get_directions_to_product",
                  product |-> Catalog[i],
                  result |-> get_directions_to_product(
                                Catalog[i],
                                get_config(store_config, "grid_rows"),
                                get_config(store_config, "grid_cols"),
                                aisles,
                                get_config(store_config, "entrance_x"),
                                get_config(store_config, "entrance_y"))]
    /\ UNCHANGED <<store_config, aisles, next_aisle_id, products, next_product_id,
                   product_vocab_loaded, spell_words>>
    /\ UNCHANGED <<request, settings, committed>>

\* the store as init_db leaves it: the default configuration, no aisle and no
\* product
InitStore ==
    /\ store_config = DefaultConfig
    /\ aisles = {}
    /\ next_aisle_id = 1
    /\ products = {}
    /\ next_product_id = 1
    /\ product_vocab_loaded = FALSE
    /\ spell_words = {}
    /\ ret = Idle
    /\ request = NoRequest
    /\ settings = NotSaving
    /\ committed = <<>>

NextStore ==
    \/ AddAisle
    \/ UpdateAisle
    \/ DeleteAisle
    \/ AddProduct
    \/ EditProduct
    \/ SeedSampleData
    \/ DeleteProduct
    \/ UpdateStoreConfig
    \/ DirectionsToProduct
    \/ Respond

SpecStore == InitStore /\ [][NextStore]_vars

\* ------------------------------------------------------------- claims: C18

\* every product's aisle reference is absent or the id of an aisle in table
\* aisles
ReferencesExist ==
    \A p \in products : p.aisle_id = None \/ \E a \in aisles : p.aisle_id = Some(a.id)

\* the step deleted an aisle
AisleDeleted(id) ==
    /\ \E a \in aisles : a.id = id
    /\ ~\E a \in aisles' : a.id = id

\* the step kept every product, those that referenced aisle id now unlocated
\* and the others as they were
ProductsKept(id) ==
    products' = {IF p.aisle_id = Some(id) THEN [p EXCEPT !.aisle_id = None] ELSE p :
                    p \in products}

\* directions were asked for a product that has no aisle, and the answer is
\* the missing-aisle failure
UnlocatedFails ==
    (ret.op = "get_directions_to_product" /\ ret.product.aisle_id = None) =>
        /\ ~ret.result.found
        /\ ret.result.path = <<>>
        /\ ret.result.target = None
        /\ ret.result.directions[1] = Lit("Sorry, I couldn't find the location for aisle ")

\* C18: after any sequence of product and aisle create/update/delete
\* operations every product's aisle reference is absent or the id of an
\* existing aisle; deleting an aisle keeps the products that referenced it
\* and makes them unlocated; directions to an unlocated product is the
\* missing-aisle failure.
C18_ReferencesExist ==
    /\ [](ReferencesExist /\ UnlocatedFails)
    /\ [][\A id \in 1..MaxAisles : AisleDeleted(id) => ProductsKept(id)]_vars

\* C18 witness: an aisle has been deleted, and directions to a product that
\* has no aisle came back as the missing-aisle failure while another aisle
\* is still there
C18_Witness ==
    /\ ret.op = "get_directions_to_product"
    /\ ret.product.aisle_id = None
    /\ ~ret.result.found
    /\ \E id \in 1..(next_aisle_id - 1) : ~\E a \in aisles : a.id = id
    /\ aisles # {}

\* ------------------------------------------------------------- claims: C19

\* C19 as stated: after any sequence of add_aisle, update_aisle and
\* delete_aisle, no two aisles occupy the same grid cell.
C19_Original ==
    \A a \in aisles, b \in aisles :
        a.id # b.id => <<a.grid_x, a.grid_y>> # <<b.grid_x, b.grid_y>>

\* ------------------------------------------------------------- claims: C20

\* C20 as stated: after any sequence of configuration updates, grid_rows >= 2,
\* grid_cols >= 2 and the entrance coordinates lie inside the grid.
C20_Original ==
    /\ store_config["grid_rows"] >= 2
    /\ store_config["grid_cols"] >= 2
    /\ 0 <= store_config["entrance_x"]
    /\ store_config["entrance_x"] < store_config["grid_rows"]
    /\ 0 <= store_config["entrance_y"]
    /\ store_config["entrance_y"] < store_config["grid_cols"]

\* ------------------------------------------------------------- claims: C21

\* two cells one 4-directional unit step apart
UnitStep(c, d) == Abs(c[1] - d[1]) + Abs(c[2] - d[2]) = 1

\* C21 as stated: every path in a found = true result starts at the entrance,
\* ends at the target aisle's cell, moves by exactly one 4-directional unit
\* step between consecutive cells, stays inside the grid, visits no cell
\* twice, and steps equals the path length minus one.
C21_Original ==
    (ret.op = "get_directions_to_product" /\ ret.result.found) =>
        /\ ret.result.path # <<>>
        /\ ret.result.path[1] = Entrance
        /\ \E a \in NamedAisles(ret.product) :
              ret.result.path[Len(ret.result.path)] = <<a.grid_x, a.grid_y>>
        /\ \A i \in 1..(Len(ret.result.path) - 1) :
              UnitStep(ret.result.path[i], ret.result.path[i + 1])
        /\ \A i \in 1..Len(ret.result.path) :
              InsideGrid(ret.result.path[i][1], ret.result.path[i][2])
        /\ \A i, j \in 1..Len(ret.result.path) :
              i # j => ret.result.path[i] # ret.result.path[j]
        /\ ret.result.steps = Some(Len(ret.result.path) - 1)

\* ------------------------------------------------------------- claims: C22

\* the unit step from cell i of a path to the next
StepOf(path, i) == <<path[i + 1][1] - path[i][1], path[i + 1][2] - path[i][2]>>

\* the indices at which a maximal run of identical steps begins
RunStarts(path) ==
    {i \in 1..(Len(path) - 1) : i = 1 \/ StepOf(path, i) # StepOf(path, i - 1)}

\* the index of the cell at which the run beginning at i ends
RunStop(path, i) ==
    CHOOSE j \in RunStarts(path) \cup {Len(path)} :
        /\ j > i
        /\ \A k \in RunStarts(path) \cup {Len(path)} : k > i => j <= k

\* the name the claim gives each unit step
StepName(d) ==
    IF d = <<0, 1>> THEN "right"
    ELSE IF d = <<0, -1>> THEN "left"
    ELSE IF d = <<1, 0>> THEN "forward"
    ELSE "back"

\* "Go <dir>" for a run of 1, "Go <dir> for k sections" for a run of k >= 2
RunPhrase(path, i) ==
    IF RunStop(path, i) - i = 1
    THEN <<Lit("Go "), Lit(StepName(StepOf(path, i)))>>
    ELSE <<Lit("Go "), Lit(StepName(StepOf(path, i))), Lit(" for "),
           Num(RunStop(path, i) - i), Lit(" sections")>>

\* one phrase per maximal run from index i on, in path order, joined by the
\* separator
RECURSIVE RunPhrases(_, _)
RunPhrases(path, i) ==
    IF i >= Len(path) THEN <<>>
    ELSE RunPhrase(path, i)
         \o (IF RunStop(path, i) < Len(path)
             THEN <<Lit(" -> ")>> \o RunPhrases(path, RunStop(path, i))
             ELSE <<>>)

\* the instruction part of a found result's directions: what follows
\* "Head to **Aisle <name>** (<section>): "
InstructionPart == SubSeq(ret.result.directions, 6, Len(ret.result.directions))

\* directions were found along a path of two cells or more
WalkedPath ==
    /\ ret.op = "get_directions_to_product"
    /\ ret.result.found
    /\ Len(ret.result.path) >= 2

\* C22: path_to_directions emits, in path order, exactly one phrase per
\* maximal run of identical unit steps, "Go <dir>" for a run of 1 and "Go
\* <dir> for k sections" for a run of k >= 2, with (0,+1) = right, (0,-1) =
\* left, (+1,0) = forward, (-1,0) = back; adjacent phrases name different
\* directions; from entrance (0,0) to an aisle at (0,2) the text is the
\* single phrase "Go right for 2 sections".
C22_RunLengthPhrases ==
    WalkedPath =>
        /\ InstructionPart = RunPhrases(ret.result.path, 1)
        /\ \A i \in RunStarts(ret.result.path) \ {1} :
              StepName(StepOf(ret.result.path, i))
                 # StepName(StepOf(ret.result.path, i - 1))
        /\ (Entrance = <<0, 0>> /\ ret.result.path[Len(ret.result.path)] = <<0, 2>>) =>
              InstructionPart = <<Lit("Go "), Lit("right"), Lit(" for "), Num(2),
                                  Lit(" sections")>>

\* C22 witness: a path of a run of two steps and a run of one step, rendered
\* as two phrases
C22_Witness ==
    /\ WalkedPath
    /\ Len(ret.result.path) = 4
    /\ Cardinality(RunStarts(ret.result.path)) = 2
    /\ \E i \in 1..Len(InstructionPart) : InstructionPart[i] = Num(2)
    /\ \E i \in 1..Len(InstructionPart) : InstructionPart[i] = Lit(" -> ")

\* ------------------------------------------------------------- claims: C23

\* every text of at most MaxTextLen characters over two letters
ShortTexts == UNION {[1..n -> {"a", "b"}] : n \in 0..MaxTextLen}

\* the case of each floor, as the if / elif chain selects it
SubstringCase(term, name, keywords) == IsSubstr(term, name)
StartsEndsCase(term, name, keywords) ==
    /\ ~IsSubstr(term, name)
    /\ StartsWith(name, term) \/ EndsWith(name, term)
KeywordCase(term, name, keywords) ==
    /\ ~IsSubstr(term, name)
    /\ ~(StartsWith(name, term) \/ EndsWith(name, term))
    /\ IsSubstr(term, keywords)

\* the per-term score of the claim: the weighted sum raised to the floor of
\* the first case that applies
FlooredScore(term, product) ==
    IF SubstringCase(term, Lower(product.name), Lower(product.keywords))
    THEN Max(Weighted(term, product), FloorSubstring)
    ELSE IF StartsEndsCase(term, Lower(product.name), Lower(product.keywords))
    THEN Max(Weighted(term, product), FloorStartsEnds)
    ELSE IF KeywordCase(term, Lower(product.name), Lower(product.keywords))
    THEN Max(Weighted(term, product), FloorKeyword)
    ELSE Weighted(term, product)

\* C23 as stated: in the fuzzy tier a product's final score is the maximum
\* over the expanded terms of the per-term score, the weighted sum raised to
\* at least 95, 92 or 75 by the first of the three cases that applies, and
\* each of the three floors is applied in some case.
C23_Original ==
    /\ (Searched /\ ret.tier = "fuzzy") =>
          \A k \in 1..Len(ret.result) :
              ret.result[k].match_score =
                  Round1(MaxOf({0} \cup {FlooredScore(TermsOfCall[t], ret.result[k].product) :
                                            t \in 1..Len(TermsOfCall)}))
    /\ \E term \in ShortTexts, name \in ShortTexts : SubstringCase(term, name, <<>>)
    /\ \E term \in ShortTexts, name \in ShortTexts : StartsEndsCase(term, name, <<>>)
    /\ \E term \in ShortTexts, name \in ShortTexts, keywords \in ShortTexts :
          KeywordCase(term, name, keywords)

\* ------------------------------------------------------------- claims: C24

\* the product numbers the matcher's reply lists, in the order listed
RepliedIndices ==
    JsonLoadsArray(RegexBracketList(ret.llm.text)[1])[1]

\* the numbers of the reply that name a product of the numbered listing
AcceptedIndices ==
    SelectSeq(RepliedIndices, LAMBDA idx : 1 <= idx /\ idx <= Len(Catalog))

\* the k-th accepted product under its rank score 100 - 5 (k - 1), in tenths
RankedAccepted ==
    [k \in 1..Len(AcceptedIndices) |->
        [product |-> Catalog[AcceptedIndices[k]], match_score |-> 1000 - 50 * (k - 1)]]

\* the first n entries of a list
FirstN(xs, n) == SubSeq(xs, 1, Min(n, Len(xs)))

\* C24 as stated: in the semantic tier each returned index is 1-based and
\* maps to that product of the numbered listing, indices outside 1..catalog
\* size are skipped without consuming a rank, the k-th accepted product gets
\* match_score 100 - 5 (k - 1), and the result is the first top_n accepted
\* products.
C24_Original ==
    (ret.op = "search_products" /\ ret.tier = "llm" /\ ~ret.raised) =>
        ret.result = FirstN(RankedAccepted, ret.top_n)

\* ------------------------------------------------------------- claims: C25

\* the reply cites a location
CitesLocation ==
    /\ ChatAnswered
    /\ StartsWith(ret.result.response[1], <<"(pin)">> \o FoundAt)

\* "Aisle <aisle_name>, Shelf <shelf>" of a product in an aisle
AisleAndShelf(product) ==
    <<"A", "i", "s", "l", "e", " ">> \o product.aisle_name[1]
    \o <<",", " ", "S", "h", "e", "l", "f", " ">> \o Decimal(product.shelf)

\* C25 as stated: whenever chat's reply cites a location ("Found at ..."),
\* that location is the aisle and shelf of the top-ranked returned product,
\* the product the directions were computed for; it is never taken from the
\* user's query text or from a lower-ranked product.
C25_Original ==
    CitesLocation =>
        /\ ret.result.products # <<>>
        /\ ret.result.products[1].product.aisle_name # None
        /\ ret.result.response[1]
              = <<"(pin)">> \o FoundAt \o AisleAndShelf(ret.result.products[1].product)
                \o FoundAtEnd

\* ------------------------------------------------------------- claims: C26

\* a path that first moves only along its first cell's row and then only
\* along its last cell's column: up to some cell every step keeps the row,
\* from that cell on every step keeps the column
RowThenColumn(path) ==
    \E turn \in 1..Len(path) :
        /\ \A i \in 1..(turn - 1) : path[i + 1][1] = path[i][1]
        /\ \A i \in turn..(Len(path) - 1) : path[i + 1][2] = path[i][2]

\* the phrases of an instruction part, counted by their "Go " pieces
PhraseCount(pieces) == Cardinality({i \in 1..Len(pieces) : pieces[i] = Lit("Go ")})

\* C26: for every entrance inside the grid the path bfs_path returns first
\* moves only along the entrance's row and then only along the target's
\* column, so the rendered directions hold at most two phrases, at most one
\* turn.
C26_RowThenColumn ==
    (WalkedPath /\ EntranceInside) =>
        /\ RowThenColumn(ret.result.path)
        /\ PhraseCount(InstructionPart) <= 2

\* C26 witness: from an entrance inside the grid the path runs along the row
\* and then turns into the column: two phrases
C26_Witness ==
    /\ WalkedPath
    /\ EntranceInside
    /\ ret.result.path[1][1] # ret.result.path[Len(ret.result.path)][1]
    /\ ret.result.path[1][2] # ret.result.path[Len(ret.result.path)][2]
    /\ RowThenColumn(ret.result.path)
    /\ PhraseCount(InstructionPart) = 2

\* ------------------------------------------------------------- claims: C27

\* C27 as stated: a result sequence returned by search_products never
\* contains the same catalog product (same id) more than once, in either
\* tier.
C27_Original ==
    ret.op = "search_products" =>
        \A i, j \in 1..Len(ret.result) :
            i # j => ret.result[i].product.id # ret.result[j].product.id

\* ------------------------------------------------------------- claims: C28

\* the navigator's grid and lookup for the store as it is
StoreGrid ==
    build_store_grid(get_config(store_config, "grid_rows"),
                     get_config(store_config, "grid_cols"), aisles)

EditStep == ret = Idle /\ ret'.op = "edit_product"

\* the row of table products with the id of the request, before the step
\* and after it
EditedBefore == CHOOSE p \in products : p.id = ret'.product_id
EditedAfter == CHOOSE p \in products' : p.id = ret'.product_id

\* C29 as stated: PUT /products/<id> changes only the fields present in the
\* request body, every field the request omits, price and quantity
\* included, keeps its stored value, and a PUT for an unknown id returns
\* not-found and changes nothing.
C29_Original ==
    [][EditStep =>
          /\ (ret'.status = 404) <=> (~\E p \in products : p.id = ret'.product_id)
          /\ ret'.status = 404 => products' = products
          /\ ret'.status = 200 =>
                /\ \A p \in products : p.id # ret'.product_id => p \in products'
                /\ {p.id : p \in products'} = {p.id : p \in products}
                /\ EditedAfter.aisle_id = BodyGet(ret'.data.aisle_id, EditedBefore.aisle_id)
                /\ EditedAfter.shelf = BodyGet(ret'.data.shelf, EditedBefore.shelf)
                /\ EditedAfter.name = EditedBefore.name
                /\ EditedAfter.brand = EditedBefore.brand
                /\ EditedAfter.category = EditedBefore.category
                /\ EditedAfter.keywords = EditedBefore.keywords
                /\ EditedAfter.price = EditedBefore.price
                /\ EditedAfter.quantity = EditedBefore.quantity]_vars

\* ------------------------------------------------------------- claims: C30

\* the step is a call of seed_sample_data
SeedStep == ret = Idle /\ ret'.op = "seed_sample_data"

\* C30 as stated: seed_sample_data loads the sample data only into an empty
\* database and is otherwise a no-op: called after any sequence of product
\* and aisle operations it completes without error and never creates a
\* second copy of an aisle or a product.
C30_Original ==
    [][SeedStep =>
          /\ ~ret'.raised
          /\ (products # {} \/ aisles # {}) => UNCHANGED <<products, aisles>>
          /\ \A a, b \in aisles' : a.name = b.name => a = b
          /\ \A p, q \in products' :
                (p.name = q.name /\ p.id # q.id) =>
                    \E x, y \in products : x.name = p.name /\ x.id # y.id /\ y.name = x.name
      ]_vars

====
